---- MODULE Spec2Model ----
(***************************************************************************)
(* Astrocade: ingestion of Wordle results from chat messages.              *)
(*                                                                         *)
(* The store is the three tables of core/models.py (players,              *)
(* wordle_puzzles, wordle_results).  The operations are the static         *)
(* methods of WordleOps (extensions/wordle.py) and Database.get_player     *)
(* (core/database.py), written as operators over a store record `db` that  *)
(* return the new store together with the value returned or the exception  *)
(* raised.  Three specifications exercise them:                            *)
(*   Spec       message handlers run one after the other;                  *)
(*   StoreSpec  add_result called directly on the store;                   *)
(*   ConcSpec   two import pipelines interleaved at their await points.    *)
(***************************************************************************)
EXTENDS Integers, Sequences, FiniteSets, Bags, TLC

VARIABLES
    players,    \* table players: set of ids (primary key id)
    puzzles,    \* table wordle_puzzles: set of rows [id, day, solution]
    results,    \* table wordle_results: bag of rows [id, attempts, player_id, puzzle_id]
    svc,        \* the puzzle metadata service: day -> response
    roster,     \* the guild's member list, as fetch_members returns it
    last,       \* the handler that ran last: its input, what it returned or raised
    procs       \* ConcSpec: each pipeline's position and locals

vars == <<players, puzzles, results, svc, roster, last, procs>>

----------------------------------------------------------------------------
(* Bounds of the model *)

MaxLines == 2       \* lines of a digest after its header
MaxRoster == 2      \* members in the roster
MaxOps == 2         \* handlers run in one behaviour of Spec
MaxCalls == 3       \* add_result calls in one behaviour of StoreSpec
MaxResolves == 2    \* resolver calls in one behaviour of ResolverSpec
MaxScans == 2       \* channel scans in one behaviour of ScanSpec

----------------------------------------------------------------------------
(* Python values *)

\* None where an id is expected: `if not user`, `if not server` treat it
\* like 0, and no snowflake is 0.
NoId == 0

NoExc == "ok"

Digits == <<"0", "1", "2", "3", "4", "5", "6", "7", "8", "9">>

IsDigit(c) == \E i \in 1..10 : Digits[i] = c

DigitVal(c) == (CHOOSE i \in 1..10 : Digits[i] = c) - 1

RECURSIVE IntVal(_)
IntVal(s) == IF s = <<>> THEN 0
             ELSE 10 * IntVal(SubSeq(s, 1, Len(s) - 1)) + DigitVal(s[Len(s)])

\* int(s) on the text a regex group captured: the value, or ValueError.
int(s) ==
    IF s # <<>> /\ \A i \in 1..Len(s) : IsDigit(s[i])
    THEN [exc |-> NoExc, val |-> IntVal(s)]
    ELSE [exc |-> "ValueError", val |-> 0]

\* f"{n}" for n >= 0
RECURSIVE str(_)
str(n) == IF n < 10 THEN <<Digits[n + 1]>>
          ELSE str(n \div 10) \o <<Digits[(n % 10) + 1]>>

\* str.upper() on the letters the model uses
UpperChar(c) ==
    CASE c = "a" -> "A" [] c = "b" -> "B" [] c = "l" -> "L" [] c = "o" -> "O"
      [] c = "w" -> "W" [] c = "z" -> "Z" [] OTHER -> c

upper(s) == [i \in 1..Len(s) |-> UpperChar(s[i])]

----------------------------------------------------------------------------
(* The store *)

DB == [players |-> players, puzzles |-> puzzles, results |-> results]

\* WordleResult.id
ResultId(player_id, puzzle_id) == str(player_id) \o <<"_">> \o str(puzzle_id)

WordleResult(attempts, player_id, puzzle_id) ==
    [id |-> ResultId(player_id, puzzle_id), attempts |-> attempts,
     player_id |-> player_id, puzzle_id |-> puzzle_id]

WordlePuzzle(id, day, solution) == [id |-> id, day |-> day, solution |-> solution]

\* select(WordleResult).where(WordleResult.id == result_id): the rows found
SelectResult(db, result_id) == {r \in BagToSet(db.results) : r.id = result_id}

\* InsertResult on a table that has lost its primary key: every row is taken
InsertResult_NoPrimaryKey(db, row) ==
    [exc |-> NoExc, db |-> [db EXCEPT !.results = @ (+) SetToBag({row})]]

\* INSERT INTO wordle_results: the primary key rejects a second row with the id
InsertResult(db, row) ==
    IF SelectResult(db, row.id) # {}
    THEN [exc |-> "IntegrityError", db |-> db]
    ELSE [exc |-> NoExc, db |-> [db EXCEPT !.results = @ (+) SetToBag({row})]]

SelectPuzzle(db, id) == {p \in db.puzzles : p.id = id}

\* INSERT INTO wordle_puzzles: id is the primary key and day is UNIQUE
InsertPuzzle(db, row) ==
    IF \E p \in db.puzzles : p.id = row.id \/ p.day = row.day
    THEN [exc |-> "IntegrityError", db |-> db]
    ELSE [exc |-> NoExc, db |-> [db EXCEPT !.puzzles = @ \cup {row}]]

\* INSERT INTO players
InsertPlayer(db, id) ==
    IF id \in db.players
    THEN [exc |-> "IntegrityError", db |-> db]
    ELSE [exc |-> NoExc, db |-> [db EXCEPT !.players = @ \cup {id}]]

\* Player.wordle_results
wordle_results(db, player_id) ==
    {r \in BagToSet(db.results) : r.player_id = player_id}

----------------------------------------------------------------------------
(* The puzzle metadata service and the resolver *)

\* A failed fetch: raise_for_status raises
HttpError == [status |-> "err", print_date |-> <<>>, days_since_launch |-> <<>>,
              solution |-> <<>>]

\* GET https://www.nytimes.com/svc/wordle/v2/{day}.json
_get_puzzle_metadata(day) == IF day \in DOMAIN svc THEN svc[day] ELSE HttpError

\* the neighbours the other way round: the day after before the day before
Offsets_DayAfterFirst == <<0, 1, -1>>

\* for offset in (0, -1, 1)
Offsets == <<0, -1, 1>>

RECURSIVE get_puzzle_id_loop(_, _, _)
get_puzzle_id_loop(day, k, probes) ==
    IF k > Len(Offsets)
    THEN [exc |-> "RuntimeError", id |-> NoId, probes |-> probes]
    ELSE LET possibility == day + Offsets[k]
             metadata == _get_puzzle_metadata(possibility)
             probed == Append(probes, possibility)
         IN  IF metadata.status # "ok"
             THEN [exc |-> "HTTPStatusError", id |-> NoId, probes |-> probed]
             ELSE IF /\ metadata.print_date = <<possibility>>
                     /\ metadata.days_since_launch # <<>>
                  THEN [exc |-> NoExc, id |-> metadata.days_since_launch[1],
                        probes |-> probed]
                  ELSE get_puzzle_id_loop(day, k + 1, probed)

get_puzzle_id(day) == get_puzzle_id_loop(day, 1, <<>>)

RECURSIVE get_puzzle_day_loop(_, _, _, _)
get_puzzle_day_loop(id, start_day, k, probes) ==
    IF k > Len(Offsets)
    THEN [exc |-> "RuntimeError", day |-> NoId, probes |-> probes]
    ELSE LET possibility == start_day + Offsets[k]
             metadata == _get_puzzle_metadata(possibility)
             probed == Append(probes, possibility)
         IN  IF metadata.status # "ok"
             THEN [exc |-> "HTTPStatusError", day |-> NoId, probes |-> probed]
             ELSE IF /\ metadata.days_since_launch = <<id>>
                     /\ metadata.print_date # <<>>
                  THEN [exc |-> NoExc, day |-> metadata.print_date[1],
                        probes |-> probed]
                  ELSE get_puzzle_day_loop(id, start_day, k + 1, probed)

get_puzzle_day(id, start_day) == get_puzzle_day_loop(id, start_day, 1, <<>>)

\* metadata.get("solution", "-----")
DefaultSolution == <<"-", "-", "-", "-", "-">>

get_puzzle_solution(day) ==
    LET metadata == _get_puzzle_metadata(day)
        solution == IF metadata.solution = <<>> THEN DefaultSolution
                    ELSE metadata.solution[1]
    IN  IF metadata.status # "ok"
        THEN [exc |-> "HTTPStatusError", solution |-> <<>>, probes |-> <<day>>]
        ELSE IF metadata.print_date = <<day>>
             THEN [exc |-> NoExc, solution |-> upper(solution), probes |-> <<day>>]
             ELSE [exc |-> "RuntimeError", solution |-> <<>>, probes |-> <<day>>]

----------------------------------------------------------------------------
(* Get-or-create on the store *)

NoPuzzle == WordlePuzzle(NoId, NoId, <<>>)

\* get_player that creates the Player object without storing it
get_player_Unsaved(db, id) == [exc |-> NoExc, db |-> db, player |-> id]

\* Database.get_player
get_player(db, id) ==
    IF id \in db.players
    THEN [exc |-> NoExc, db |-> db, player |-> id]
    ELSE LET ins == InsertPlayer(db, id)
         IN  [exc |-> ins.exc, db |-> ins.db, player |-> id]

\* get_puzzle without its lookup: the day and the solution are resolved for
\* a stored puzzle too
get_puzzle_AlwaysResolve(db, id, day) ==
    LET d == get_puzzle_day(id, day)
        s == get_puzzle_solution(d.day)
    IN  IF d.exc # NoExc
        THEN [exc |-> d.exc, db |-> db, puzzle |-> NoPuzzle, probes |-> d.probes]
        ELSE IF s.exc # NoExc
        THEN [exc |-> s.exc, db |-> db, puzzle |-> NoPuzzle,
              probes |-> d.probes \o s.probes]
        ELSE IF SelectPuzzle(db, id) # {}
        THEN [exc |-> NoExc, db |-> db,
              puzzle |-> CHOOSE p \in SelectPuzzle(db, id) : TRUE,
              probes |-> d.probes \o s.probes]
        ELSE [exc |-> InsertPuzzle(db, WordlePuzzle(id, d.day, s.solution)).exc,
              db |-> InsertPuzzle(db, WordlePuzzle(id, d.day, s.solution)).db,
              puzzle |-> WordlePuzzle(id, d.day, s.solution),
              probes |-> d.probes \o s.probes]

\* WordleOps.get_puzzle
get_puzzle(db, id, day) ==
    LET found == SelectPuzzle(db, id)
    IN  IF found # {}
        THEN [exc |-> NoExc, db |-> db, puzzle |-> CHOOSE p \in found : TRUE,
              probes |-> <<>>]
        ELSE LET d == get_puzzle_day(id, day)
             IN  IF d.exc # NoExc
                 THEN [exc |-> d.exc, db |-> db, puzzle |-> NoPuzzle,
                       probes |-> d.probes]
                 ELSE LET s == get_puzzle_solution(d.day)
                          fetched == d.probes \o s.probes
                      IN  IF s.exc # NoExc
                          THEN [exc |-> s.exc, db |-> db, puzzle |-> NoPuzzle,
                                probes |-> fetched]
                          ELSE LET puzzle == WordlePuzzle(id, d.day, s.solution)
                                   ins == InsertPuzzle(db, puzzle)
                               IN  [exc |-> ins.exc, db |-> ins.db,
                                    puzzle |-> IF ins.exc = NoExc THEN puzzle
                                               ELSE NoPuzzle,
                                    probes |-> fetched]

\* WordleOps.get_result: <<>> is None
get_result(db, player_id, puzzle_id) ==
    LET found == SelectResult(db, ResultId(player_id, puzzle_id))
    IN  IF found = {} THEN <<>> ELSE <<CHOOSE r \in found : TRUE>>

\* add_result without its get_result check: it always inserts
add_result_Unchecked(db, attempts, player_id, puzzle_id) ==
    LET result == WordleResult(attempts, player_id, puzzle_id)
        ins == InsertResult(db, result)
    IN  [exc |-> ins.exc, db |-> ins.db,
         ret |-> IF ins.exc = NoExc THEN <<result>> ELSE <<>>]

\* add_result as an upsert: an existing row takes the new attempt count
add_result_Upsert(db, attempts, player_id, puzzle_id) ==
    LET result == WordleResult(attempts, player_id, puzzle_id)
        others == {r \in BagToSet(db.results) : r.id # result.id}
    IN  [exc |-> NoExc,
         db |-> [db EXCEPT !.results = SetToBag(others \cup {result})],
         ret |-> IF get_result(db, player_id, puzzle_id) # <<>> THEN <<>>
                 ELSE <<result>>]

\* WordleOps.add_result: ret is <<>> for None, <<row>> for the row added
add_result(db, attempts, player_id, puzzle_id) ==
    IF get_result(db, player_id, puzzle_id) # <<>>
    THEN [exc |-> NoExc, db |-> db, ret |-> <<>>]
    ELSE LET result == WordleResult(attempts, player_id, puzzle_id)
             ins == InsertResult(db, result)
         IN  [exc |-> ins.exc, db |-> ins.db,
              ret |-> IF ins.exc = NoExc THEN <<result>> ELSE <<>>]

----------------------------------------------------------------------------
(* Message text.  A line is a sequence of tokens; a token is the piece of    *)
(* text one of the patterns of WordleOps matches, or text none matches:      *)
(*   hdr   "Your group is on {v} 3 day streak"                               *)
(*   mark  "{v}/6:"          id   "<@{v}>"        name  "@{v}"               *)
(*   share "Wordle {v} {g}/6"                     text  anything else        *)

Tok(k, v, g) == [k |-> k, v |-> v, g |-> g]

\* RGX_STREAK: r"Your\s+group\s+is\s+on\s+a\s+(\d+)\s+day\s+streak"
RGX_STREAK(content) ==
    \E i \in 1..Len(content) : \E j \in 1..Len(content[i]) :
        content[i][j].k = "hdr" /\ content[i][j].v = <<"a">>

\* re.search(RGX_STREAK_ATTEMPT, line): <<>> or <<group(1)>> of the first match
RGX_STREAK_ATTEMPT(line) ==
    LET marks == SelectSeq(line, LAMBDA t : t.k = "mark")
    IN  IF marks = <<>> THEN <<>> ELSE <<marks[1].v>>

\* re.search in the place of re.findall: the first mention of the line alone
RGX_STREAK_USER_First(line) ==
    LET found == SelectSeq(line, LAMBDA t : t.k \in {"id", "name"})
    IN  [i \in 1..(IF found = <<>> THEN 0 ELSE 1) |->
            IF found[i].k = "id" THEN <<found[i].v, <<>>>>
            ELSE <<<<>>, found[i].v>>]

\* re.findall(RGX_STREAK_USER, line): the (group 1, group 2) pairs, in order
RGX_STREAK_USER(line) ==
    LET found == SelectSeq(line, LAMBDA t : t.k \in {"id", "name"})
    IN  [i \in 1..Len(found) |->
            IF found[i].k = "id" THEN <<found[i].v, <<>>>>
            ELSE <<<<>>, found[i].v>>]

\* the grades [0-6X] of RGX_SHARE
ShareGrades == {"0", "1", "2", "3", "4", "5", "6", "X"}

\* re.search(RGX_SHARE, text): <<>> or <<(group 1, group 2)>> of the first match
RGX_SHARE(text) ==
    LET found == SelectSeq(text, LAMBDA t : t.k = "share" /\ t.g \in ShareGrades)
    IN  IF found = <<>> THEN <<>> ELSE <<<<found[1].v, found[1].g>>>>

\* the fail grade stored as 7, the way the range filter of the history
\* command normalises it
Attempts_FailAsSeven(attempts_raw) ==
    IF attempts_raw = <<"X">> THEN [exc |-> NoExc, val |-> 7] ELSE int(attempts_raw)

\* -1 if attempts_raw == "X" else int(attempts_raw)
Attempts(attempts_raw) ==
    IF attempts_raw = <<"X">> THEN [exc |-> NoExc, val |-> -1] ELSE int(attempts_raw)

----------------------------------------------------------------------------
(* Identity resolution in _import_streak *)

\* list(dict.fromkeys(name for name in (username, global_name, nickname) if name))
RECURSIVE Dedup(_)
Dedup(s) ==
    IF s = <<>> THEN <<>>
    ELSE LET init == Dedup(SubSeq(s, 1, Len(s) - 1))
             x == s[Len(s)]
         IN  IF \E i \in 1..Len(init) : init[i] = x THEN init ELSE Append(init, x)

MemberNames(member) ==
    Dedup(SelectSeq(<<member.username, member.global_name, member.nickname>>,
                    LAMBDA name : name # <<>>))

\* name == user, user being the text of the mention
NameMatches(name, user) == name = user

\* for member in members: ... if name == user: user = member.id; break
\* `user` is [is_int, id, text]; once it holds an id no name equals it.
RECURSIVE resolve_loop(_, _, _)
resolve_loop(members, k, user) ==
    IF k > Len(members) THEN user
    ELSE LET names == MemberNames(members[k])
             hit == /\ ~user.is_int
                    /\ \E i \in 1..Len(names) : NameMatches(names[i], user.text)
         IN  resolve_loop(members, k + 1,
                          IF hit THEN [is_int |-> TRUE, id |-> members[k].id,
                                       text |-> <<>>]
                          ELSE user)

\* fetch_members(server)
fetch_members(server) == roster

----------------------------------------------------------------------------
(* _import_streak.  The loop state st carries the store, the results        *)
(* collected, the exception raised, whether the local `names` is bound, and  *)
(* the days fetched from the metadata service.                               *)

Raise(st, exc) == [st EXCEPT !.exc = exc]

\* user: int | str = int(mention[0]) if mention[0] else mention[1]
MentionUser(mention) ==
    IF mention[1] # <<>>
    THEN LET n == int(mention[1])
         IN  [exc |-> n.exc, is_int |-> TRUE, id |-> n.val, text |-> <<>>]
    ELSE [exc |-> NoExc, is_int |-> FALSE, id |-> NoId, text |-> mention[2]]

\* the skip taken out: a numeric mention goes on to get_player
NotUnmentioned_Never(user) == FALSE

\* if isinstance(user, int): "Skipped mention {user}, not unmentioned"
NotUnmentioned(user) == user.is_int

\* result = await WordleOps.add_result(attempts, player.id, puzzle.id)
\* results.append(result) when it is not None
StreakResult(st, attempts, player, puzzle) ==
    LET result == add_result(st.db, attempts, player, puzzle.id)
    IN  IF result.exc # NoExc THEN Raise(st, result.exc)
        ELSE [st EXCEPT !.db = result.db, !.results = @ \o result.ret]

\* puzzle = await WordleOps.get_puzzle(puzzle_id, day), puzzle_id being what
\* get_puzzle_id(day) gave
StreakPuzzle(st, day, attempts, player, puzzle_id) ==
    IF puzzle_id.exc # NoExc
    THEN Raise([st EXCEPT !.probes = @ \o puzzle_id.probes], puzzle_id.exc)
    ELSE LET puzzle == get_puzzle(st.db, puzzle_id.id, day)
             fetched == [st EXCEPT !.db = puzzle.db,
                                   !.probes = @ \o puzzle_id.probes \o puzzle.probes]
         IN  IF puzzle.exc # NoExc THEN Raise(fetched, puzzle.exc)
             ELSE StreakResult(fetched, attempts, player, puzzle.puzzle)

\* player = await Database.get_player(user), then the puzzle and the result
StreakPlayer(st, day, attempts, user) ==
    LET player == get_player(st.db, user)
    IN  IF player.exc # NoExc THEN Raise(st, player.exc)
        ELSE StreakPuzzle([st EXCEPT !.db = player.db], day, attempts,
                          player.player, get_puzzle_id(day))

\* the body of `for mention in mentions`
StreakMention(st, msg, guild_id, day, attempts, mention) ==
    LET parsed == MentionUser(mention)
        server == IF msg.guild_id = NoId /\ guild_id # NoId THEN guild_id
                  ELSE msg.guild_id
    IN  IF parsed.exc # NoExc THEN Raise(st, parsed.exc)
        ELSE IF NotUnmentioned(parsed) THEN st
        ELSE IF server = NoId THEN st                \* "server is null"
        ELSE
        LET members == fetch_members(server)
            user == resolve_loop(members, 1,
                                 [is_int |-> parsed.is_int, id |-> parsed.id,
                                  text |-> parsed.text])
            bound == st.names_bound \/ members # <<>>
            st1 == [st EXCEPT !.names_bound = bound]
        IN  IF ~user.is_int                          \* isinstance(user, str)
            THEN IF bound THEN st1 ELSE Raise(st1, "UnboundLocalError")
            ELSE StreakPlayer(st1, day, attempts, user.id)

RECURSIVE StreakMentions(_, _, _, _, _, _, _)
StreakMentions(st, msg, guild_id, day, attempts, mentions, k) ==
    IF k > Len(mentions) \/ st.exc # NoExc THEN st
    ELSE StreakMentions(StreakMention(st, msg, guild_id, day, attempts, mentions[k]),
                        msg, guild_id, day, attempts, mentions, k + 1)

\* the body of `for line in msg.content.splitlines()`
StreakLine(st, msg, guild_id, line) ==
    LET attempt == RGX_STREAK_ATTEMPT(line)
    IN  IF attempt = <<>> THEN st                    \* "not an attempt"
        ELSE LET day == msg.created_at - 1           \* Yesterday
                 attempts == Attempts(attempt[1])
                 mentions == RGX_STREAK_USER(line)
             IN  IF attempts.exc # NoExc THEN Raise(st, attempts.exc)
                 ELSE StreakMentions(st, msg, guild_id, day, attempts.val,
                                     mentions, 1)

RECURSIVE StreakLines(_, _, _, _)
StreakLines(st, msg, guild_id, k) ==
    IF k > Len(msg.content) \/ st.exc # NoExc THEN st
    ELSE StreakLines(StreakLine(st, msg, guild_id, msg.content[k]),
                     msg, guild_id, k + 1)

\* What an import returns: kind is "None", "list" or "row"; ret holds the rows.
Returned(db, kind, ret, probes, posted) ==
    [exc |-> NoExc, db |-> db, kind |-> kind, ret |-> ret, probes |-> probes,
     posted |-> posted]

Raised(db, exc, probes) ==
    [exc |-> exc, db |-> db, kind |-> "None", ret |-> <<>>, probes |-> probes,
     posted |-> FALSE]

\* return results, after the digest notice when the import came from the
\* message event and found something
StreakReturn(st, event) ==
    IF st.exc # NoExc THEN Raised(st.db, st.exc, st.probes)
    ELSE Returned(st.db, "list", st.results, st.probes, st.results # <<>> /\ event)

_import_streak(db, msg, guild_id, event) ==
    IF msg.content = <<>> \/ ~RGX_STREAK(msg.content)
    THEN Returned(db, "None", <<>>, <<>>, FALSE)
    ELSE StreakReturn(StreakLines([exc |-> NoExc, db |-> db, results |-> <<>>,
                                   names_bound |-> FALSE, probes |-> <<>>],
                                  msg, guild_id, 1),
                      event)

----------------------------------------------------------------------------
(* _import_share *)

\* the invoker, falling back on the author of the message
Invoker_OrAuthor(msg) ==
    IF msg.interaction_metadata.kind = "command"
    THEN msg.interaction_metadata.user ELSE msg.author.id

\* msg.interaction_metadata.user.id when the metadata is a
\* CommandInteractionMetadata holding a User, else None
Invoker(msg) ==
    IF msg.interaction_metadata.kind = "command"
    THEN msg.interaction_metadata.user ELSE NoId

\* the text of the first text block of the first container, when the
\* message has that shape: <<>> or <<content>>
ShareText(msg) ==
    IF msg.components = <<>> THEN <<>>
    ELSE IF msg.components[1].k # "container" THEN <<>>
    ELSE LET container == msg.components[1]
         IN  IF container.components = <<>> THEN <<>>
             ELSE IF container.components[1].k # "text" THEN <<>>
             ELSE IF container.components[1].content = <<>> THEN <<>>
             ELSE <<container.components[1].content>>

\* result = await WordleOps.add_result(attempts, player.id, puzzle.id)
ShareResult(puzzle, attempts, player) ==
    IF puzzle.exc # NoExc THEN Raised(puzzle.db, puzzle.exc, puzzle.probes)
    ELSE LET result == add_result(puzzle.db, attempts, player, puzzle.puzzle.id)
         IN  IF result.exc # NoExc THEN Raised(puzzle.db, result.exc, puzzle.probes)
             ELSE Returned(result.db, IF result.ret = <<>> THEN "None" ELSE "row",
                           result.ret, puzzle.probes, FALSE)

\* player = await Database.get_player(user)
\* puzzle = await WordleOps.get_puzzle(puzzle_id, msg.created_at.date())
SharePlayer(db, msg, puzzle_id, attempts, user) ==
    LET player == get_player(db, user)
    IN  IF player.exc # NoExc THEN Raised(db, player.exc, <<>>)
        ELSE ShareResult(get_puzzle(player.db, puzzle_id, msg.created_at),
                         attempts, player.player)

_import_share(db, msg, guild_id, event) ==
    LET text == ShareText(msg)
        match == IF text = <<>> THEN <<>> ELSE RGX_SHARE(text[1])
    IN  IF match = <<>> THEN Returned(db, "None", <<>>, <<>>, FALSE)
        ELSE
        LET puzzle_id == int(match[1][1])
            attempts == Attempts(<<match[1][2]>>)
            user == Invoker(msg)
        IN  IF puzzle_id.exc # NoExc THEN Raised(db, puzzle_id.exc, <<>>)
            ELSE IF attempts.exc # NoExc THEN Raised(db, attempts.exc, <<>>)
            ELSE IF user = NoId THEN Raised(db, "RuntimeError", <<>>)
            ELSE SharePlayer(db, msg, puzzle_id.val, attempts.val, user)

----------------------------------------------------------------------------
(* import_data *)

\* env.int("DISCORD_WORDLE_BOT_ID")
DISCORD_WORDLE_BOT_ID == 90

\* The outcome of import_data, with the strategy that produced it:
\* "none" when the message was skipped before either strategy ran.
Via(strategy, r) ==
    [exc |-> r.exc, db |-> r.db, kind |-> r.kind, ret |-> r.ret,
     probes |-> r.probes, posted |-> r.posted, strategy |-> strategy]

\* the strategies the other way round: the share strategy runs on every
\* message and its outcome is the answer unless it is None
StreakOrShare_ShareFirst(streak, msg, guild_id, event) ==
    IF _import_share(streak.db, msg, guild_id, event).exc # NoExc
       \/ _import_share(streak.db, msg, guild_id, event).ret # <<>>
    THEN Via("share", _import_share(streak.db, msg, guild_id, event))
    ELSE Via("streak", streak)

\* (await _import_streak(...)) or (await _import_share(...)): a list with
\* results is the answer, an empty list or None hands over to the share strategy
StreakOrShare(streak, msg, guild_id, event) ==
    IF streak.exc # NoExc \/ streak.ret # <<>> THEN Via("streak", streak)
    ELSE Via("share", [_import_share(streak.db, msg, guild_id, event)
                          EXCEPT !.probes = streak.probes \o @])

\* import_data without the comparison with DISCORD_WORDLE_BOT_ID: every
\* author runs the strategies
import_data_AnyAuthor(db, msg, guild_id, event) ==
    IF msg.content = <<>> /\ msg.components = <<>>
    THEN Via("none", Returned(db, "None", <<>>, <<>>, FALSE))
    ELSE StreakOrShare(_import_streak(db, msg, guild_id, event), msg, guild_id, event)

import_data(db, msg, guild_id, event) ==
    IF ~msg.author.is_bot
    THEN Via("none", Returned(db, "None", <<>>, <<>>, FALSE))
    ELSE IF msg.author.id # DISCORD_WORDLE_BOT_ID
    THEN Via("none", Returned(db, "None", <<>>, <<>>, FALSE))
    ELSE IF msg.content = <<>> /\ msg.components = <<>>
    THEN Via("none", Returned(db, "None", <<>>, <<>>, FALSE))
    ELSE StreakOrShare(_import_streak(db, msg, guild_id, event), msg, guild_id, event)

----------------------------------------------------------------------------
(* The inputs: members, rosters, service behaviours and messages *)

al == <<"a", "l">>
Al == <<"A", "l">>
bo == <<"b", "o">>
zz == <<"z", "z">>

Member(id, username, global_name, nickname) ==
    [id |-> id, username |-> username, global_name |-> global_name,
     nickname |-> nickname]

Members == {Member(1, al, <<>>, bo), Member(2, bo, Al, <<>>)}

RECURSIVE SeqsUpTo(_, _)
SeqsUpTo(S, n) ==
    IF n = 0 THEN {<<>>}
    ELSE LET shorter == SeqsUpTo(S, n - 1)
         IN  shorter \cup {Append(q, x) : q \in shorter, x \in S}

NoRepeat(q) == \A i, j \in 1..Len(q) : i # j => q[i] # q[j]

\* member lists: no user is a member twice
Rosters == {r \in SeqsUpTo(Members, MaxRoster) : NoRepeat(r)}

Days == 0..4

Response(print_date, days_since_launch, solution) ==
    [status |-> "ok", print_date |-> print_date,
     days_since_launch |-> days_since_launch, solution |-> solution]

\* the puzzle of day d: puzzle d + 5, solution "w{d}"
Puzzle(d) == Response(<<d>>, <<d + 5>>, <<<<"w">> \o str(d)>>)

Services ==
    {[d \in Days |-> Puzzle(d)],                      \* every day answers for itself
     [d \in Days |-> HttpError],                      \* the service is down
     [d \in Days |-> Response(<<>>, <<>>, <<>>)],     \* answers without the fields
     [d \in Days |-> IF d = 0 THEN HttpError          \* answers for the day before
                     ELSE Puzzle(d - 1)],
     [d \in Days |-> Response(<<d>>, <<d + 6>>, <<>>)], \* numbering ahead by one
     [d \in Days |-> Response(<<d>>, <<7>>, <<al>>)], \* one puzzle number every day
     [d \in Days |-> IF d = 1 THEN HttpError ELSE Puzzle(d)]}

Guilds == {50}

Author(is_bot, id) == [is_bot |-> is_bot, id |-> id]
Wordle == Author(TRUE, DISCORD_WORDLE_BOT_ID)
OtherBot == Author(TRUE, DISCORD_WORDLE_BOT_ID + 1)
Human == Author(FALSE, 1)

NoMeta == [kind |-> "none", user |-> NoId]
Command(user) == [kind |-> "command", user |-> user]

Msg(author, content, components, interaction_metadata, guild_id, created_at) ==
    [author |-> author, content |-> content, components |-> components,
     interaction_metadata |-> interaction_metadata, guild_id |-> guild_id,
     created_at |-> created_at, message_reference |-> <<>>]

Header(article) == <<Tok("hdr", article, "")>>
Mark(v) == Tok("mark", v, "")
At(v) == Tok("name", v, "")
Mention(v) == Tok("id", v, "")
Text == Tok("text", <<>>, "")

DigestLines ==
    {<<Mark(<<"3">>), At(al)>>,
     <<Mark(<<"X">>), At(bo), At(Al)>>,
     <<Text, At(bo)>>,
     <<Mark(<<"5">>), Mention(<<"2">>), At(zz), At(bo)>>}

Digest(lines) == <<Header(<<"a">>)>> \o lines

Container(components) == [k |-> "container", components |-> components, content |-> <<>>]
TextDisplay(content) == [k |-> "text", components |-> <<>>, content |-> content]
OtherComponent == [k |-> "other", components |-> <<>>, content |-> <<>>]

Card(n, g) == <<Container(<<TextDisplay(<<Tok("share", n, g)>>)>>)>>

StreakMsgs ==
    {Msg(Wordle, Digest(ls), <<>>, NoMeta, 50, 2) :
        ls \in {q \in SeqsUpTo(DigestLines, MaxLines) : NoRepeat(q)}}
    \cup {Msg(Wordle, Digest(<<<<Mark(<<"X">>), At(bo), At(al)>>>>), <<>>, NoMeta, 50, 3),
          Msg(Wordle, Digest(<<<<Mark(<<"7">>), At(bo)>>>>), <<>>, NoMeta, 50, 2),
          Msg(Wordle, Digest(<<<<Mark(<<"2">>), At(Al)>>>>), <<>>, NoMeta, 50, 2),
          Msg(Wordle, Digest(<<<<Mark(<<"a", "b">>), At(al)>>>>), <<>>, NoMeta, 50, 2),
          Msg(Wordle, Digest(<<<<Mark(<<"4">>), Mention(<<"z", "z">>)>>>>), <<>>, NoMeta, 50, 2)}

ShareMsgs ==
    {Msg(Wordle, <<>>, Card(n, g), meta, 50, 2) :
        n \in {<<"6">>, <<"7">>}, g \in {"0", "4", "X"}, meta \in {NoMeta, Command(1)}}
    \cup {Msg(Wordle, <<>>, Card(<<"7">>, "3"), meta, 50, 3) :
            meta \in {Command(2), [kind |-> "other", user |-> 1]}}
    \cup {Msg(Wordle, <<>>, Card(<<"6">>, "7"), Command(1), 50, 2)}

OtherMsgs ==
    {Msg(Human, Digest(<<<<Mark(<<"3">>), At(al)>>>>), <<>>, NoMeta, 50, 2),
     Msg(OtherBot, <<>>, Card(<<"6">>, "4"), Command(1), 50, 2),
     Msg(Wordle, <<>>, <<>>, NoMeta, 50, 2),
     Msg(Wordle, <<Header(<<"a", "n">>), <<Mark(<<"3">>), At(al)>>>>, <<>>, NoMeta, 50, 2),
     Msg(Wordle, <<<<Mark(<<"3">>), At(al)>>>>, <<>>, NoMeta, 50, 2),
     Msg(Wordle, <<>>, <<OtherComponent>>, Command(1), 50, 2),
     Msg(Wordle, <<>>, <<Container(<<>>)>>, Command(1), 50, 2),
     Msg(Wordle, <<>>, <<Container(<<OtherComponent>>)>>, Command(1), 50, 2),
     Msg(Wordle, <<>>, <<Container(<<TextDisplay(<<>>)>>)>>, Command(1), 50, 2),
     Msg(Wordle, Digest(<<<<Mark(<<"3">>), At(al)>>>>), Card(<<"6">>, "4"), NoMeta, 50, 2),
     Msg(Wordle, Digest(<<<<Text>>>>), Card(<<"6">>, "4"), Command(2), 50, 2)}

\* the messages of GuildMessageCreateEvent: each carries its guild
Messages == StreakMsgs \cup ShareMsgs \cup OtherMsgs

\* A message a member sent that forwards or answers another one.  The
\* referenced message is what rest.fetch_message returns for it: it carries
\* no guild id of its own.
Reference(type, guild_id, msg) ==
    [type |-> type, id |-> 1, guild_id |-> guild_id, msg |-> msg]

Referring(ref) ==
    [Msg(Human, <<Text>>, <<>>, NoMeta, 50, 3) EXCEPT !.message_reference = <<ref>>]

Forwardable ==
    {Msg(Wordle, Digest(<<<<Mark(<<"X">>), At(bo), At(al)>>>>), <<>>, NoMeta, NoId, 3),
     Msg(Wordle, <<>>, Card(<<"7">>, "4"), Command(2), NoId, 2)}

CommandMsgs ==
    {Referring(Reference("FORWARD", g, f)) : g \in {NoId, 50}, f \in Forwardable}
    \cup {Referring(Reference("REPLY", 50, f)) : f \in Forwardable}
    \cup Forwardable
    \cup {Msg(Wordle, Digest(<<<<Mark(<<"3">>), At(al)>>>>), <<>>, NoMeta, 50, 2),
          Msg(Wordle, <<>>, Card(<<"6">>, "4"), NoMeta, 50, 2)}

----------------------------------------------------------------------------
(* Spec: the message handlers, one after the other *)

EmptyDB == [players |-> {}, puzzles |-> {}, results |-> EmptyBag]

\* One call of import_data as `last` records it: the input, the store
\* before it, and the outcome.
Import(pre, msg, guild_id, event, r) ==
    [msg |-> msg, guild_id |-> guild_id, event |-> event, pre |-> pre,
     post |-> r.db, exc |-> r.exc, kind |-> r.kind, ret |-> r.ret,
     probes |-> r.probes, posted |-> r.posted, strategy |-> r.strategy]

Init ==
    /\ players = {}
    /\ puzzles = {}
    /\ results = EmptyBag
    /\ \/ svc = [d \in Days |-> Puzzle(d)] /\ roster \in Rosters
       \/ svc \in Services /\ roster = <<Member(1, al, <<>>, bo), Member(2, bo, Al, <<>>)>>
    /\ last = [op |-> "init", n |-> 0, imports |-> <<>>, reply |-> "none"]
    /\ procs = <<>>

Store(db) ==
    /\ players' = db.players
    /\ puzzles' = db.puzzles
    /\ results' = db.results

\* what the command answers after its imports
Reply(db, imports, found) ==
    [db |-> imports[Len(imports)].post, imports |-> imports,
     reply |-> IF imports[Len(imports)].exc # NoExc THEN "error"
               ELSE IF found = <<>> THEN "No valid Wordle data found"
               ELSE "Imported Wordle result"]

\* the import of the message a forward refers to
Forwarded(db, msg, first, ref, second) ==
    Reply(db,
          <<Import(db, msg, NoId, FALSE, first),
            Import(first.db, ref.msg, ref.guild_id, FALSE, second)>>,
          first.ret \o second.ret)

\* the message was imported; a forward goes on to the message it refers to
Imported(db, msg, first) ==
    IF /\ first.exc = NoExc
       /\ msg.message_reference # <<>>
       /\ msg.message_reference[1].type = "FORWARD"
       /\ msg.message_reference[1].id # NoId
    THEN Forwarded(db, msg, first, msg.message_reference[1],
                   import_data(first.db, msg.message_reference[1].msg,
                               msg.message_reference[1].guild_id, FALSE))
    ELSE Reply(db, <<Import(db, msg, NoId, FALSE, first)>>, first.ret)

\* command_wordle_import_message: the message, then the message it forwards
command_wordle_import_message(db, msg) ==
    Imported(db, msg, import_data(db, msg, NoId, FALSE))

\* event_wordle_message
EventMessage(msg) ==
    /\ last.n < MaxOps
    /\ \E r \in {import_data(DB, msg, NoId, TRUE)} :
        /\ Store(r.db)
        /\ last' = [op |-> "event", n |-> last.n + 1,
                    imports |-> <<Import(DB, msg, NoId, TRUE, r)>>,
                    reply |-> "none"]
    /\ UNCHANGED <<svc, roster, procs>>

ImportMessageCommand(msg) ==
    /\ last.n < MaxOps
    /\ \E r \in {command_wordle_import_message(DB, msg)} :
        /\ Store(r.db)
        /\ last' = [op |-> "import_message", n |-> last.n + 1,
                    imports |-> r.imports, reply |-> r.reply]
    /\ UNCHANGED <<svc, roster, procs>>

Next ==
    \/ \E msg \in Messages : EventMessage(msg)
    \/ \E msg \in CommandMsgs : ImportMessageCommand(msg)

Spec == Init /\ [][Next]_vars

----------------------------------------------------------------------------
(* StoreSpec: add_result called directly, one call after the other *)

StorePlayers == {1, 12}
StorePuzzles == {6, 26}
StoreAttempts == {-1, 3, 6}

StoreInit ==
    /\ players = {}
    /\ puzzles = {}
    /\ results = EmptyBag
    /\ svc = [d \in Days |-> Puzzle(d)]
    /\ roster = <<>>
    /\ last = [op |-> "init", n |-> 0, args |-> <<>>, prev |-> <<>>,
               ret |-> <<>>, exc |-> NoExc]
    /\ procs = <<>>

\* await WordleOps.add_result(client, attempts, player_id, puzzle_id)
AddResult(attempts, player_id, puzzle_id) ==
    /\ last.n < MaxCalls
    /\ LET r == add_result(DB, attempts, player_id, puzzle_id)
       IN  /\ Store(r.db)
           /\ last' = [op |-> "add_result", n |-> last.n + 1,
                       args |-> <<attempts, player_id, puzzle_id>>,
                       prev |-> last.args, ret |-> r.ret, exc |-> r.exc]
    /\ UNCHANGED <<svc, roster, procs>>

StoreNext ==
    \E attempts \in StoreAttempts, player_id \in StorePlayers,
       puzzle_id \in StorePuzzles : AddResult(attempts, player_id, puzzle_id)

StoreSpec == StoreInit /\ [][StoreNext]_vars

----------------------------------------------------------------------------
(* ConcSpec: two imports dispatched together.  Each pipeline runs the store *)
(* calls of its import in order and yields to the other one at every await: *)
(* between a SELECT and the INSERT that follows it.  An exception ends the   *)
(* pipeline.                                                                 *)

Pipelines == {1, 2}

\* What an import has to store once its text is parsed: for a digest the
\* members its mentions resolve to, for a share card the invoker.
Job(kind, puzzle_id, day, items) ==
    [kind |-> kind, puzzle_id |-> puzzle_id, day |-> day, items |-> items]

Item(user, attempts) == [user |-> user, attempts |-> attempts]

Jobs ==
    {Job("streak", NoId, 1, <<Item(1, 3)>>),
     Job("streak", NoId, 1, <<Item(1, 3), Item(2, -1)>>),
     Job("streak", NoId, 1, <<Item(2, -1), Item(1, 3)>>),
     Job("streak", NoId, 1, <<Item(1, 3), Item(1, -1)>>),
     Job("share", 6, 2, <<Item(1, 4)>>),
     Job("share", 7, 2, <<Item(2, 4)>>)}

Pipeline(job) ==
    [pc |-> "get_player", job |-> job, k |-> 1, puzzle_id |-> job.puzzle_id,
     ret |-> <<>>, exc |-> NoExc, at |-> "none"]

ConcInit ==
    /\ players = {}
    /\ puzzles = {}
    /\ results = EmptyBag
    /\ svc = [d \in Days |-> Puzzle(d)]
    /\ roster = <<>>
    /\ last = [op |-> "init", n |-> 0]
    /\ procs \in [Pipelines -> {Pipeline(job) : job \in Jobs}]

Current(p) == procs[p].job.items[procs[p].k]

Goto(p, pc) == procs' = [procs EXCEPT ![p].pc = pc]

\* an exception that ends every pipeline, not only the one that raised
Fail_EveryPipeline(p, exc) ==
    procs' = [q \in Pipelines |->
                 [procs[q] EXCEPT !.pc = "failed", !.exc = exc, !.at = procs[p].pc]]

Fail(p, exc) ==
    procs' = [procs EXCEPT ![p].pc = "failed", ![p].exc = exc, ![p].at = procs[p].pc]

\* the mention is done: the next one, or the end of the import
Advance(proc) ==
    IF proc.k < Len(proc.job.items)
    THEN [proc EXCEPT !.pc = "get_player", !.k = @ + 1,
                      !.puzzle_id = proc.job.puzzle_id]
    ELSE [proc EXCEPT !.pc = "done"]

\* Database.get_player: results.first()
PlayerSelect(p) ==
    /\ procs[p].pc = "get_player"
    /\ Goto(p, IF Current(p).user \in players
               THEN (IF procs[p].job.kind = "streak" THEN "get_puzzle_id"
                     ELSE "get_puzzle")
               ELSE "add_player")
    /\ UNCHANGED <<players, puzzles, results, svc, roster, last>>

\* Database.get_player: session.add(player); await session.commit()
PlayerCommit(p) ==
    /\ procs[p].pc = "add_player"
    /\ LET ins == InsertPlayer(DB, Current(p).user)
       IN  /\ Store(ins.db)
           /\ IF ins.exc # NoExc THEN Fail(p, ins.exc)
              ELSE Goto(p, IF procs[p].job.kind = "streak" THEN "get_puzzle_id"
                           ELSE "get_puzzle")
    /\ UNCHANGED <<svc, roster, last>>

\* _import_streak: puzzle_id = await WordleOps.get_puzzle_id(day)
PuzzleId(p) ==
    /\ procs[p].pc = "get_puzzle_id"
    /\ LET pid == get_puzzle_id(procs[p].job.day)
       IN  IF pid.exc # NoExc THEN Fail(p, pid.exc)
           ELSE procs' = [procs EXCEPT ![p].pc = "get_puzzle", ![p].puzzle_id = pid.id]
    /\ UNCHANGED <<players, puzzles, results, svc, roster, last>>

\* WordleOps.get_puzzle: results.first()
PuzzleSelect(p) ==
    /\ procs[p].pc = "get_puzzle"
    /\ Goto(p, IF SelectPuzzle(DB, procs[p].puzzle_id) # {} THEN "get_result"
               ELSE "add_puzzle")
    /\ UNCHANGED <<players, puzzles, results, svc, roster, last>>

\* WordleOps.get_puzzle: resolve the day and the solution, add, commit
PuzzleCommit(p) ==
    /\ procs[p].pc = "add_puzzle"
    /\ LET d == get_puzzle_day(procs[p].puzzle_id, procs[p].job.day)
           s == get_puzzle_solution(d.day)
           ins == InsertPuzzle(DB, WordlePuzzle(procs[p].puzzle_id, d.day, s.solution))
       IN  IF d.exc # NoExc THEN Fail(p, d.exc) /\ UNCHANGED <<players, puzzles, results>>
           ELSE IF s.exc # NoExc
                THEN Fail(p, s.exc) /\ UNCHANGED <<players, puzzles, results>>
           ELSE /\ Store(ins.db)
                /\ IF ins.exc # NoExc THEN Fail(p, ins.exc) ELSE Goto(p, "get_result")
    /\ UNCHANGED <<svc, roster, last>>

\* WordleOps.add_result: the get_result check
ResultSelect(p) ==
    /\ procs[p].pc = "get_result"
    /\ IF get_result(DB, Current(p).user, procs[p].puzzle_id) # <<>>
       THEN procs' = [procs EXCEPT ![p] = Advance(procs[p])]
       ELSE Goto(p, "add_result")
    /\ UNCHANGED <<players, puzzles, results, svc, roster, last>>

\* WordleOps.add_result: session.add(result); await session.commit()
ResultCommit(p) ==
    /\ procs[p].pc = "add_result"
    /\ LET row == WordleResult(Current(p).attempts, Current(p).user, procs[p].puzzle_id)
           ins == InsertResult(DB, row)
       IN  /\ Store(ins.db)
           /\ IF ins.exc # NoExc THEN Fail(p, ins.exc)
              ELSE procs' = [procs EXCEPT
                                ![p] = Advance([procs[p] EXCEPT !.ret = Append(@, row)])]
    /\ UNCHANGED <<svc, roster, last>>

ConcNext ==
    \E p \in Pipelines :
        \/ PlayerSelect(p)
        \/ PlayerCommit(p)
        \/ PuzzleId(p)
        \/ PuzzleSelect(p)
        \/ PuzzleCommit(p)
        \/ ResultSelect(p)
        \/ ResultCommit(p)

ConcSpec == ConcInit /\ [][ConcNext]_vars

----------------------------------------------------------------------------
(* Properties *)

\* the rows stored for a player and a puzzle, counted with their copies
RECURSIVE Copies(_, _)
Copies(bag, rows) ==
    IF rows = {} THEN 0
    ELSE LET r == CHOOSE r \in rows : TRUE
         IN  CopiesIn(r, bag) + Copies(bag, rows \ {r})

RowsOf(db, player_id, puzzle_id) ==
    {r \in BagToSet(db.results) : r.player_id = player_id /\ r.puzzle_id = puzzle_id}

RowCount(db, player_id, puzzle_id) ==
    Copies(db.results, RowsOf(db, player_id, puzzle_id))

\* the text of f"{player_id}_{puzzle_id}", written out
KeyText(player_id, puzzle_id) ==
    CASE player_id = 1 /\ puzzle_id = 6 -> <<"1", "_", "6">>
      [] player_id = 1 /\ puzzle_id = 26 -> <<"1", "_", "2", "6">>
      [] player_id = 12 /\ puzzle_id = 6 -> <<"1", "2", "_", "6">>
      [] player_id = 12 /\ puzzle_id = 26 -> <<"1", "2", "_", "2", "6">>

\* C1: add_result called twice in sequence with the same (player, puzzle,
\* attempts) leaves exactly one stored row, whose id is
\* "{player_id}_{puzzle_id}", and the second call returns nothing and raises
\* nothing.
C1_AddResultIdempotent ==
    (last.op = "add_result" /\ last.prev = last.args) =>
        /\ last.exc = NoExc
        /\ last.ret = <<>>
        /\ RowCount(DB, last.args[2], last.args[3]) = 1
        /\ \A r \in RowsOf(DB, last.args[2], last.args[3]) :
              r.id = KeyText(last.args[2], last.args[3])
        /\ \A r \in BagToSet(results) :
              r.id = KeyText(last.args[2], last.args[3]) =>
                  r \in RowsOf(DB, last.args[2], last.args[3])

\* C1 witness: a second identical call has just returned nothing, and the
\* store holds the one row of the first call.
C1_Witness ==
    /\ last.op = "add_result"
    /\ last.prev = last.args
    /\ last.ret = <<>>
    /\ RowCount(DB, last.args[2], last.args[3]) = 1
    /\ \E r \in RowsOf(DB, last.args[2], last.args[3]) : r.attempts = last.args[1]

\* C2: under every interleaving of two imports the store holds at most one
\* result row for a player and a puzzle.
C2_OneRowPerPlayerAndPuzzle ==
    \A r \in BagToSet(results) : RowCount(DB, r.player_id, r.puzzle_id) = 1

\* C2 witness: both pipelines passed the get_result check for one key, one
\* committed its row and the insert of the other was rejected.
C2_Witness ==
    \E p, q \in Pipelines :
        /\ p # q
        /\ procs[p].pc = "failed"
        /\ procs[p].at = "add_result"
        /\ procs[p].exc = "IntegrityError"
        /\ \E row \in BagToSet(results) :
              /\ row.player_id = Current(p).user
              /\ row.puzzle_id = procs[p].puzzle_id
              /\ \E i \in 1..Len(procs[q].ret) : procs[q].ret[i] = row
              /\ RowCount(DB, row.player_id, row.puzzle_id) = 1


----------------------------------------------------------------------------
(* Properties of the imports of Spec *)

Imports == {last.imports[i] : i \in 1..Len(last.imports)}

FromWordle(msg) == msg.author.is_bot /\ msg.author.id = DISCORD_WORDLE_BOT_ID

\* what `last` records is what happened to the store
ImportsChained ==
    /\ \A i \in 1..Len(last.imports) - 1 : last.imports[i].post = last.imports[i + 1].pre
    /\ last.imports # <<>> => last.imports[Len(last.imports)].post = DB

\* C3: no step of any import changes or removes a stored result: each row
\* of wordle_results is still there afterwards, with the attempt count it was
\* created with, and it is still the only row with its id.
C3_ResultNeverMutated ==
    [][\A r \in BagToSet(results) :
          /\ CopiesIn(r, results') = CopiesIn(r, results)
          /\ \A q \in BagToSet(results') : q.id = r.id => q.attempts = r.attempts]_vars

\* the grade a share card shows, and whose it is
CardMatch(msg) == IF ShareText(msg) = <<>> THEN <<>> ELSE RGX_SHARE(ShareText(msg)[1])

\* the number a run of decimal digits writes
Number(digits) == CHOOSE n \in 0..99 : str(n) = digits

\* C3 witness: a share card was imported for a player and a puzzle whose
\* stored result has another attempt count, and the stored row is as before.
C3_Witness ==
    \E imp \in Imports :
        /\ imp.strategy = "share"
        /\ imp.exc = NoExc
        /\ CardMatch(imp.msg) # <<>>
        /\ imp.msg.interaction_metadata.kind = "command"
        /\ \E r \in BagToSet(imp.pre.results) :
              /\ r.player_id = imp.msg.interaction_metadata.user
              /\ r.puzzle_id = Number(CardMatch(imp.msg)[1][1])
              /\ r.attempts = 3
              /\ CardMatch(imp.msg)[1][2] = "4"
              /\ r \in BagToSet(results)

\* C4: every stored result has an attempt count of 1 to 6, or -1.
C4_AttemptsInRange ==
    \A r \in BagToSet(results) : r.attempts \in (1..6) \cup {-1}

----------------------------------------------------------------------------
(* Streak digests, read off the text.  What a claim expects of a digest is   *)
(* written from the tokens of its lines and from the roster, not from the    *)
(* operators of _import_streak.                                              *)

\* One import, the streak strategy alone
StreakOf(imp) == _import_streak(imp.pre, imp.msg, imp.guild_id, imp.event)

\* a digest from the designated bot
IsDigest(msg) ==
    /\ FromWordle(msg)
    /\ \E i \in 1..Len(msg.content) : \E j \in 1..Len(msg.content[i]) :
          msg.content[i][j].k = "hdr" /\ msg.content[i][j].v = <<"a">>

\* the guild whose roster the import reads
ServerOf(imp) == IF imp.msg.guild_id # NoId THEN imp.msg.guild_id ELSE imp.guild_id

Marks(line) == SelectSeq(line, LAMBDA t : t.k = "mark")
IsMarked(line) == Marks(line) # <<>>
MentionsIn(line) == SelectSeq(line, LAMBDA t : t.k \in {"id", "name"})

AllDigits(v) ==
    v # <<>> /\ \A i \in 1..Len(v) : v[i] \in {Digits[d] : d \in 1..10}

\* the attempt count a grade stands for: X is -1, a number its value
GradeValue(v) == IF v = <<"X">> THEN -1 ELSE Number(v)

\* the first member in roster order one of whose names is the text, or NoId
Lookup(text) ==
    LET hits == {i \in 1..Len(roster) :
                    text \in {roster[i].username, roster[i].global_name,
                              roster[i].nickname}}
    IN  IF hits = {} THEN NoId
        ELSE roster[CHOOSE i \in hits : \A h \in hits : i <= h].id

\* a line with an attempt count and one or more mentions, each a bare name
\* that resolves to a member
IsResolvedLine(line) ==
    /\ IsMarked(line)
    /\ Marks(line)[1].v = <<"X">> \/ AllDigits(Marks(line)[1].v)
    /\ MentionsIn(line) # <<>>
    /\ \A j \in 1..Len(MentionsIn(line)) :
          /\ MentionsIn(line)[j].k = "name"
          /\ Lookup(MentionsIn(line)[j].v) # NoId

\* the puzzle a digest is about: the puzzle of the day before it was sent
DigestPuzzle(msg) == get_puzzle_id(msg.created_at - 1).id

\* the loop of _import_streak after the first k lines of the digest
AfterLines(imp, k) ==
    StreakLines([exc |-> NoExc, db |-> imp.pre, results |-> <<>>,
                 names_bound |-> FALSE, probes |-> <<>>],
                [imp.msg EXCEPT !.content = SubSeq(@, 1, k)], imp.guild_id, 1)

\* the results line k of the digest added to the list the import returns
LineYield(imp, k) ==
    SubSeq(AfterLines(imp, k).results, Len(AfterLines(imp, k - 1).results) + 1,
           Len(AfterLines(imp, k).results))

\* the digest without the lines after its first that carry no attempt marker
RECURSIVE MarkedOnly(_)
MarkedOnly(content) ==
    IF Len(content) <= 1 THEN content
    ELSE IF IsMarked(content[Len(content)])
         THEN Append(MarkedOnly(SubSeq(content, 1, Len(content) - 1)),
                     content[Len(content)])
         ELSE MarkedOnly(SubSeq(content, 1, Len(content) - 1))

\* mention j of line k is the first of the digest to name its member, and
\* the member has no stored result for the puzzle
IsFresh(imp, k, j) ==
    LET content == imp.msg.content
        member == Lookup(MentionsIn(content[k])[j].v)
    IN  /\ RowsOf(imp.pre, member, DigestPuzzle(imp.msg)) = {}
        /\ \A k2 \in 1..k : \A j2 \in 1..Len(MentionsIn(content[k2])) :
              (/\ k2 < k \/ j2 < j
               /\ IsMarked(content[k2])
               /\ MentionsIn(content[k2])[j2].k = "name")
              => Lookup(MentionsIn(content[k2])[j2].v) # member

\* the results line k is to add: one for each mention that is fresh
ExpectedYield(imp, k) ==
    LET line == imp.msg.content[k]
        fresh == SelectSeq([j \in 1..Len(MentionsIn(line)) |-> j],
                           LAMBDA j : IsFresh(imp, k, j))
    IN  [i \in 1..Len(fresh) |->
            WordleResult(GradeValue(Marks(line)[1].v),
                         Lookup(MentionsIn(line)[fresh[i]].v),
                         DigestPuzzle(imp.msg))]

\* one result for every mention of the line
OnePerMention(imp, k) ==
    LET line == imp.msg.content[k]
    IN  [j \in 1..Len(MentionsIn(line)) |->
            WordleResult(GradeValue(Marks(line)[1].v), Lookup(MentionsIn(line)[j].v),
                         DigestPuzzle(imp.msg))]

IsNumericMention(t) == t.k = "id" /\ AllDigits(t.v)

\* the digest without its numeric mentions
WithoutNumericMentions(content) ==
    [k \in 1..Len(content) |-> SelectSeq(content[k], LAMBDA t : ~IsNumericMention(t))]

\* C6 as stated: a numeric mention on a line with an attempt count has a
\* result recorded for the player with that id: after an import that does not
\* raise the store holds a result of that player for the digest's puzzle, and
\* it carries the line's attempt count when the player had none before.
C6_Original ==
    \A imp \in Imports :
        (IsDigest(imp.msg) /\ StreakOf(imp).exc = NoExc) =>
            \A k \in 1..Len(imp.msg.content) :
                \A j \in 1..Len(imp.msg.content[k]) :
                    LET line == imp.msg.content[k]
                    IN  (/\ IsMarked(line)
                         /\ Marks(line)[1].v = <<"X">> \/ AllDigits(Marks(line)[1].v)
                         /\ IsNumericMention(line[j]))
                        => /\ RowsOf(StreakOf(imp).db, Number(line[j].v),
                                     DigestPuzzle(imp.msg)) # {}
                           /\ RowsOf(imp.pre, Number(line[j].v),
                                     DigestPuzzle(imp.msg)) = {}
                              => WordleResult(GradeValue(Marks(line)[1].v),
                                              Number(line[j].v), DigestPuzzle(imp.msg))
                                 \in BagToSet(StreakOf(imp).db.results)

\* C6: a numeric mention in a digest is skipped ("not unmentioned"): nothing
\* is looked up, created or recorded for it, and the import returns, stores
\* and raises what it does for the digest without the numeric mentions.
C6_NumericMentionSkipped ==
    \A imp \in Imports :
        IsDigest(imp.msg) =>
            LET bare == [imp EXCEPT !.msg.content = WithoutNumericMentions(@)]
            IN  /\ StreakOf(imp).ret = StreakOf(bare).ret
                /\ StreakOf(imp).db = StreakOf(bare).db
                /\ StreakOf(imp).exc = StreakOf(bare).exc

\* C6 witness: a digest was imported in which a line with an attempt count
\* mentions <@2> and a member by name; the named member got the result and
\* player 2 has neither a row in players nor a result.
C6_Witness ==
    \E imp \in Imports :
        /\ IsDigest(imp.msg)
        /\ imp.strategy = "streak"
        /\ imp.exc = NoExc
        /\ \E k \in 1..Len(imp.msg.content) :
              /\ IsMarked(imp.msg.content[k])
              /\ \E j \in 1..Len(imp.msg.content[k]) :
                    /\ IsNumericMention(imp.msg.content[k][j])
                    /\ Number(imp.msg.content[k][j].v) = 2
              /\ LineYield(imp, k) # <<>>
        /\ 2 \notin players
        /\ wordle_results(DB, 2) = {}

\* str.casefold() on the letters the model uses
LowerChar(c) ==
    CASE c = "A" -> "a" [] c = "B" -> "b" [] c = "L" -> "l" [] c = "O" -> "o"
      [] c = "W" -> "w" [] c = "Z" -> "z" [] OTHER -> c

Lower(s) == [i \in 1..Len(s) |-> LowerChar(s[i])]

\* the first member in roster order one of whose names is the text up to
\* letter case, or NoId
LookupAnyCase(text) ==
    LET hits == {i \in 1..Len(roster) :
                    Lower(text) \in {Lower(roster[i].username),
                                     Lower(roster[i].global_name),
                                     Lower(roster[i].nickname)}}
    IN  IF hits = {} THEN NoId
        ELSE roster[CHOOSE i \in hits : \A h \in hits : i <= h].id

\* C7: a bare mention resolves to the first member in roster order one of
\* whose names equals it up to letter case.  In a digest imported with a guild
\* and without raising, on every line with an attempt count whose mentions are
\* all bare, each mention that resolves so has a result stored for its member,
\* and every result the line yields belongs to a member resolved so.
C7_CaseInsensitiveFirstMatch ==
    \A imp \in Imports :
        (IsDigest(imp.msg) /\ ServerOf(imp) # NoId /\ StreakOf(imp).exc = NoExc) =>
            \A k \in 1..Len(imp.msg.content) :
                LET line == imp.msg.content[k]
                    named == {LookupAnyCase(MentionsIn(line)[j].v) :
                                 j \in 1..Len(MentionsIn(line))} \ {NoId}
                IN  (/\ IsMarked(line)
                     /\ Marks(line)[1].v = <<"X">> \/ AllDigits(Marks(line)[1].v)
                     /\ \A j \in 1..Len(MentionsIn(line)) :
                           MentionsIn(line)[j].k = "name")
                    => /\ \A member \in named :
                             RowsOf(StreakOf(imp).db, member,
                                    DigestPuzzle(imp.msg)) # {}
                       /\ \A i \in 1..Len(LineYield(imp, k)) :
                             LineYield(imp, k)[i].player_id \in named

\* the digest without the bare mentions that equal no name of a member
WithoutUnmatched(content) ==
    [k \in 1..Len(content) |->
        SelectSeq(content[k], LAMBDA t : ~(t.k = "name" /\ Lookup(t.v) = NoId))]

\* C8: a bare mention that matches no member is skipped and nothing else:
\* for every roster, the empty one included, a digest imported with a guild
\* returns, stores and raises what it does without its unmatched mentions.
C8_UnmatchedMentionSkipped ==
    \A imp \in Imports :
        (IsDigest(imp.msg) /\ ServerOf(imp) # NoId) =>
            LET matched == [imp EXCEPT !.msg.content = WithoutUnmatched(@)]
            IN  /\ StreakOf(imp).ret = StreakOf(matched).ret
                /\ StreakOf(imp).db = StreakOf(matched).db
                /\ StreakOf(imp).exc = StreakOf(matched).exc

----------------------------------------------------------------------------
(* Share cards, read off the message *)

\* the user who invoked the interaction the card answers, or NoId
InvokerOf(msg) ==
    IF msg.interaction_metadata.kind = "command" THEN msg.interaction_metadata.user
    ELSE NoId

\* a message of the designated bot that reached the share strategy with a
\* first text block matching "Wordle <n> <g>/6"
IsShareCard(imp) ==
    /\ FromWordle(imp.msg)
    /\ imp.strategy = "share"
    /\ CardMatch(imp.msg) # <<>>

CardPuzzle(msg) == Number(CardMatch(msg)[1][1])
CardAttempts(msg) == GradeValue(<<CardMatch(msg)[1][2]>>)

\* the one result a card is to produce
CardResult(msg) == WordleResult(CardAttempts(msg), InvokerOf(msg), CardPuzzle(msg))

C10_NoInvokerRaises ==
    \A imp \in Imports :
        (IsShareCard(imp) /\ InvokerOf(imp.msg) = NoId)
        => /\ imp.exc = "RuntimeError"
           /\ imp.ret = <<>>
           /\ imp.post = imp.pre

\* C10 witness: a card without an invoker reached a store that holds
\* results, the command that imported it answered with an error, and the
\* store is as it was.
C10_Witness ==
    \E imp \in Imports :
        /\ IsShareCard(imp)
        /\ InvokerOf(imp.msg) = NoId
        /\ imp.pre.results # EmptyBag
        /\ imp.exc = "RuntimeError"
        /\ imp.post = DB
        /\ last.reply = "error"

----------------------------------------------------------------------------
(* import_data: which strategy answers *)

\* One import, the share strategy alone, on the store the streak strategy left
ShareOf(imp) == _import_share(StreakOf(imp).db, imp.msg, imp.guild_id, imp.event)

\* the content carries the header of a digest
HasStreakHeader(msg) ==
    \E i \in 1..Len(msg.content) : \E j \in 1..Len(msg.content[i]) :
        msg.content[i][j].k = "hdr" /\ msg.content[i][j].v = <<"a">>

\* C11: for a message of the designated bot, import_data answers with the
\* streak strategy when it raises or yields results, and runs the share
\* strategy, on the store the streak strategy left, only when the streak
\* strategy yielded nothing; a message with neither a digest header nor a
\* share card returns None, raises nothing and leaves the store unchanged.
C11_StreakFirstThenShare ==
    \A imp \in Imports :
        FromWordle(imp.msg) =>
            /\ (imp.msg.content # <<>> \/ imp.msg.components # <<>>) =>
                  IF StreakOf(imp).exc # NoExc \/ StreakOf(imp).ret # <<>>
                  THEN /\ imp.strategy = "streak"
                       /\ imp.exc = StreakOf(imp).exc
                       /\ imp.ret = StreakOf(imp).ret
                       /\ imp.post = StreakOf(imp).db
                  ELSE /\ imp.strategy = "share"
                       /\ imp.exc = ShareOf(imp).exc
                       /\ imp.ret = ShareOf(imp).ret
                       /\ imp.post = ShareOf(imp).db
            /\ (~HasStreakHeader(imp.msg) /\ CardMatch(imp.msg) = <<>>) =>
                  /\ imp.exc = NoExc
                  /\ imp.kind = "None"
                  /\ imp.ret = <<>>
                  /\ imp.post = imp.pre

\* C11 witness: a message that is a digest and a share card at once was
\* imported; the digest yielded a result and the card was not read.
C11_Witness ==
    \E imp \in Imports :
        /\ IsDigest(imp.msg)
        /\ CardMatch(imp.msg) # <<>>
        /\ imp.strategy = "streak"
        /\ imp.exc = NoExc
        /\ imp.ret # <<>>
        /\ \A i \in 1..Len(imp.ret) : imp.ret[i] \in BagToSet(results)

\* C12: a message whose author is not the designated bot runs neither
\* strategy: import_data returns None, raises nothing, fetches nothing and
\* leaves players, wordle_puzzles and wordle_results as they were.
C12_OtherAuthorShortCircuits ==
    \A imp \in Imports :
        ~FromWordle(imp.msg) =>
            /\ imp.strategy = "none"
            /\ imp.exc = NoExc
            /\ imp.kind = "None"
            /\ imp.ret = <<>>
            /\ imp.probes = <<>>
            /\ ~imp.posted
            /\ imp.post = imp.pre

\* C12 witness: a share card with an invoker, sent by another bot, went
\* through import_data and the store is as before.
C12_Witness ==
    \E imp \in Imports :
        /\ imp.msg.author.is_bot
        /\ imp.msg.author.id # DISCORD_WORDLE_BOT_ID
        /\ CardMatch(imp.msg) # <<>>
        /\ InvokerOf(imp.msg) # NoId
        /\ imp.strategy = "none"
        /\ imp.post = DB

----------------------------------------------------------------------------
(* ResolverSpec: the resolver and get_puzzle called directly, on every       *)
(* behaviour of the metadata service                                         *)

\* the days asked: their neighbours are days the service knows
ResolveDays == 1..3

ResolveIds == 5..9

\* the service behaviours of the imports, and one that answers for every day
\* but day 2, for which it answers without the fields
ResolverServices ==
    Services
    \cup {[d \in Days |-> IF d = 2 THEN Response(<<>>, <<>>, <<>>) ELSE Puzzle(d)]}

ResolverInit ==
    /\ players = {}
    /\ puzzles = {}
    /\ results = EmptyBag
    /\ svc \in ResolverServices
    /\ roster = <<>>
    /\ last = [op |-> "init", n |-> 0, args |-> <<>>, pre |-> EmptyDB,
               exc |-> NoExc, val |-> <<>>, probes |-> <<>>]
    /\ procs = <<>>

\* one call as `last` records it: val holds what was returned
Resolved(op, args, r, val) ==
    [op |-> op, n |-> last.n + 1, args |-> args, pre |-> DB, exc |-> r.exc,
     val |-> IF r.exc = NoExc THEN <<val>> ELSE <<>>, probes |-> r.probes]

\* await WordleOps.get_puzzle_id(day)
GetPuzzleId(day) ==
    /\ last.n < MaxResolves
    /\ \E r \in {get_puzzle_id(day)} :
          last' = Resolved("get_puzzle_id", <<day>>, r, r.id)
    /\ UNCHANGED <<players, puzzles, results, svc, roster, procs>>

\* await WordleOps.get_puzzle_day(id, start_day)
GetPuzzleDay(id, start_day) ==
    /\ last.n < MaxResolves
    /\ \E r \in {get_puzzle_day(id, start_day)} :
          last' = Resolved("get_puzzle_day", <<id, start_day>>, r, r.day)
    /\ UNCHANGED <<players, puzzles, results, svc, roster, procs>>

\* await WordleOps.get_puzzle_solution(day)
GetPuzzleSolution(day) ==
    /\ last.n < MaxResolves
    /\ \E r \in {get_puzzle_solution(day)} :
          last' = Resolved("get_puzzle_solution", <<day>>, r, r.solution)
    /\ UNCHANGED <<players, puzzles, results, svc, roster, procs>>

\* await WordleOps.get_puzzle(client, id, day)
GetPuzzle(id, day) ==
    /\ last.n < MaxResolves
    /\ \E r \in {get_puzzle(DB, id, day)} :
          /\ Store(r.db)
          /\ last' = Resolved("get_puzzle", <<id, day>>, r, r.puzzle)
    /\ UNCHANGED <<svc, roster, procs>>

ResolverNext ==
    \/ \E day \in ResolveDays : GetPuzzleId(day)
    \/ \E id \in ResolveIds, day \in ResolveDays : GetPuzzleDay(id, day)
    \/ \E day \in ResolveDays : GetPuzzleSolution(day)
    \/ \E id \in ResolveIds, day \in ResolveDays : GetPuzzle(id, day)

ResolverSpec == ResolverInit /\ [][ResolverNext]_vars

----------------------------------------------------------------------------
(* The resolver: get_puzzle_day, get_puzzle_id *)

\* the candidates in the order the contract gives them
Candidates(day) == <<day, day - 1, day + 1>>

Fetched(day) == svc[day].status = "ok"

\* the response for `day` reports puzzle `id`
ReportsId(day, id) == svc[day].days_since_launch = <<id>>

\* the response for `day` reports puzzle `id` and a print date
ReportsIdAndDay(day, id) == ReportsId(day, id) /\ svc[day].print_date # <<>>

\* the response for `probe` reports the day `day` and a puzzle number
ReportsDay(probe, day) ==
    svc[probe].print_date = <<day>> /\ svc[probe].days_since_launch # <<>>

IsGetPuzzleDay == last.op = "get_puzzle_day"

\* C13 as stated: get_puzzle_day(id, approxDay) probes approxDay, approxDay - 1,
\* approxDay + 1 in that order, returns at the first probe whose response
\* reports days_since_launch = id, and returns that probe's day; when no response
\* reports id it raises RuntimeError after exactly three probes.
C13_Original ==
    IsGetPuzzleDay =>
        \/ /\ last.exc = NoExc
           /\ \E k \in 1..3 :
                 /\ last.probes = SubSeq(Candidates(last.args[2]), 1, k)
                 /\ ReportsId(Candidates(last.args[2])[k], last.args[1])
                 /\ \A j \in 1..(k - 1) :
                       ~ReportsId(Candidates(last.args[2])[j], last.args[1])
                 /\ last.val = <<Candidates(last.args[2])[k]>>
        \/ /\ last.exc = "RuntimeError"
           /\ last.probes = Candidates(last.args[2])
           /\ \A k \in 1..3 :
                 ~ReportsId(Candidates(last.args[2])[k], last.args[1])

\* C13: get_puzzle_day(id, approxDay) probes approxDay, approxDay - 1,
\* approxDay + 1 in that order and stops at the first probe whose fetch fails
\* (HTTPStatusError, at once) or whose response reports days_since_launch = id
\* together with a print date (it returns the print date that response
\* reports); when the three fetches succeed and none matches it raises
\* RuntimeError after exactly three probes.
C13_GetPuzzleDayProbes ==
    IsGetPuzzleDay =>
        \E k \in 1..3 :
            /\ last.probes = SubSeq(Candidates(last.args[2]), 1, k)
            /\ \A j \in 1..(k - 1) :
                  /\ Fetched(Candidates(last.args[2])[j])
                  /\ ~ReportsIdAndDay(Candidates(last.args[2])[j], last.args[1])
            /\ \/ /\ last.exc = NoExc
                  /\ Fetched(Candidates(last.args[2])[k])
                  /\ ReportsIdAndDay(Candidates(last.args[2])[k], last.args[1])
                  /\ last.val = svc[Candidates(last.args[2])[k]].print_date
               \/ /\ last.exc = "HTTPStatusError"
                  /\ ~Fetched(Candidates(last.args[2])[k])
                  /\ last.val = <<>>
               \/ /\ last.exc = "RuntimeError"
                  /\ k = 3
                  /\ Fetched(Candidates(last.args[2])[k])
                  /\ ~ReportsIdAndDay(Candidates(last.args[2])[k], last.args[1])
                  /\ last.val = <<>>

\* the day is found at the third probe, the day after the approximate day
C13_Witness ==
    /\ IsGetPuzzleDay
    /\ last.exc = NoExc
    /\ Len(last.probes) = 3
    /\ last.val = <<last.args[2] + 1>>

IsGetPuzzleId == last.op = "get_puzzle_id"

\* C14: when get_puzzle_id(day) returns, the id comes from a probe whose
\* response reports the day searched for, so it is the id of the puzzle of
\* exactly `day`, never that of day - 1 or day + 1; when the three fetches
\* succeed and no response reports `day`, it raises RuntimeError.
C14_IdOfSearchedDay ==
    IsGetPuzzleId =>
        /\ last.exc = NoExc =>
              \E k \in 1..Len(last.probes) :
                  /\ ReportsDay(last.probes[k], last.args[1])
                  /\ last.val = svc[last.probes[k]].days_since_launch
        /\ (\A k \in 1..3 :
                /\ Fetched(Candidates(last.args[1])[k])
                /\ ~ReportsDay(Candidates(last.args[1])[k], last.args[1]))
           => last.exc = "RuntimeError"

----------------------------------------------------------------------------
(* get_puzzle: get-or-create *)

IsGetPuzzle == last.op = "get_puzzle"

\* the rows stored under the id asked for when get_puzzle was called
StoredBefore == {p \in last.pre.puzzles : p.id = last.args[1]}

\* what get_puzzle has to do for an absent puzzle whose day resolved as d
\* (a record of get_puzzle_day) and whose solution resolved as s (a record of
\* get_puzzle_solution)
Created(d, s) ==
    /\ last.probes = d.probes \o s.probes
    /\ last.exc = s.exc
    /\ IF s.exc = NoExc
       THEN /\ last.val = <<WordlePuzzle(last.args[1], d.day, s.solution)>>
            /\ puzzles = last.pre.puzzles \cup {last.val[1]}
            /\ Cardinality(puzzles) = Cardinality(last.pre.puzzles) + 1
       ELSE puzzles = last.pre.puzzles

\* what get_puzzle has to do for an absent puzzle whose day resolved as d
Resolving(d) ==
    IF d.exc = NoExc
    THEN Created(d, get_puzzle_solution(d.day))
    ELSE last.probes = d.probes /\ last.exc = d.exc /\ puzzles = last.pre.puzzles

\* C15: get_puzzle(id, day) is get-or-create: for a stored id it returns the
\* stored row, fetches no metadata and leaves the store as it was; for an
\* absent id it resolves the day with get_puzzle_day, then the solution of
\* that day with get_puzzle_solution, and persists exactly one new row with
\* that id, day and solution (it raises and stores nothing when either
\* resolution fails).
C15_GetPuzzleGetOrCreate ==
    IsGetPuzzle =>
        /\ players = last.pre.players
        /\ results = last.pre.results
        /\ IF StoredBefore # {}
           THEN /\ last.exc = NoExc
                /\ last.probes = <<>>
                /\ last.val \in {<<p>> : p \in StoredBefore}
                /\ puzzles = last.pre.puzzles
           ELSE Resolving(get_puzzle_day(last.args[1], last.args[2]))

\* the second get_puzzle of a puzzle that the first one created from the
\* day before the day now given
C15_Witness ==
    /\ IsGetPuzzle
    /\ last.n = 2
    /\ last.pre.puzzles # {}
    /\ last.probes = <<>>
    /\ \E p \in StoredBefore : p.day = last.args[2] - 1 /\ last.val = <<p>>

----------------------------------------------------------------------------
(* Statistics: the hybrid properties of Player, the average of the stats     *)
(* command and the leaderboard                                               *)

\* WordlePoints (defaults)
ATTEMPTS_1 == 10
ATTEMPTS_2 == 5
ATTEMPTS_3 == 4
ATTEMPTS_4 == 3
ATTEMPTS_5 == 2
ATTEMPTS_6 == 1
FAIL == -5

\* match result.attempts
PointsFor(attempts) ==
    CASE attempts = 1 -> ATTEMPTS_1
      [] attempts = 2 -> ATTEMPTS_2
      [] attempts = 3 -> ATTEMPTS_3
      [] attempts = 4 -> ATTEMPTS_4
      [] attempts = 5 -> ATTEMPTS_5
      [] attempts = 6 -> ATTEMPTS_6
      [] OTHER -> FAIL

RECURSIVE SumPoints(_)
SumPoints(rows) ==
    IF rows = {} THEN 0
    ELSE PointsFor((CHOOSE r \in rows : TRUE).attempts)
         + SumPoints(rows \ {CHOOSE r \in rows : TRUE})

\* sum(result.attempts for result in ...)
RECURSIVE SumAttempts(_)
SumAttempts(rows) ==
    IF rows = {} THEN 0
    ELSE (CHOOSE r \in rows : TRUE).attempts
         + SumAttempts(rows \ {CHOOSE r \in rows : TRUE})

\* wordle_points that never goes below zero
wordle_points_Floored(db, player_id) ==
    IF SumPoints(wordle_results(db, player_id)) < 0 THEN 0
    ELSE SumPoints(wordle_results(db, player_id))

\* Player.wordle_points
wordle_points(db, player_id) == SumPoints(wordle_results(db, player_id))

\* Python's round(n / d) for d > 0: to the nearest integer, a half to the
\* even neighbour
round(n, d) ==
    IF 2 * (n % d) < d THEN n \div d
    ELSE IF 2 * (n % d) > d THEN (n \div d) + 1
    ELSE IF (n \div d) % 2 = 0 THEN n \div d
    ELSE (n \div d) + 1

\* Player.wordle_average_attempts
wordle_average_attempts(db, player_id) ==
    IF wordle_results(db, player_id) = {} THEN 0
    ELSE round(SumAttempts(wordle_results(db, player_id)),
               Cardinality(wordle_results(db, player_id)))

\* Player.wordle_completions
wordle_completions(db, player_id) == Cardinality(wordle_results(db, player_id))

\* Player.wordle_fails
wordle_fails(db, player_id) ==
    Cardinality({r \in wordle_results(db, player_id) : r.attempts = 7})

\* Player.wordle_aces
wordle_aces(db, player_id) ==
    Cardinality({r \in wordle_results(db, player_id) : r.attempts = 1})

\* get_player_average without its guard: the division is made for an empty
\* result set too and raises
get_player_average_Unguarded(db, player_id) ==
    IF wordle_results(get_player(db, player_id).db, player_id) = {}
    THEN [exc |-> "ZeroDivisionError", db |-> get_player(db, player_id).db,
          ret |-> 0]
    ELSE [exc |-> NoExc, db |-> get_player(db, player_id).db,
          ret |-> SumAttempts(wordle_results(db, player_id))
                  \div Cardinality(wordle_results(db, player_id))]

\* WordleOps.get_player_average
get_player_average(db, player_id) ==
    IF wordle_results(get_player(db, player_id).db, player_id) = {}
    THEN [exc |-> NoExc, db |-> get_player(db, player_id).db, ret |-> 0]
    ELSE [exc |-> NoExc, db |-> get_player(db, player_id).db,
          ret |-> SumAttempts(wordle_results(db, player_id))
                  \div Cardinality(wordle_results(db, player_id))]

\* the orders of the set S
Orders(S) ==
    {s \in [1..Cardinality(S) -> S] : \A i, j \in DOMAIN s : s[i] = s[j] => i = j}

\* ORDER BY wordle_points DESC: the order of equal totals is the engine's
Descending(db, S) ==
    {s \in Orders(S) :
        \A i, j \in DOMAIN s :
            i < j => wordle_points(db, s[i]) >= wordle_points(db, s[j])}

\* LIMIT limit
Limit(s, limit) == SubSeq(s, 1, IF limit < Len(s) THEN limit ELSE Len(s))

\* get_leaderboard without its filter: every player is listed
get_leaderboard_Everyone(db, limit) ==
    {Limit(s, limit) : s \in Descending(db, db.players)}

\* WordleOps.get_leaderboard: the lists the query can return
get_leaderboard(db, limit) ==
    {Limit(s, limit) :
        s \in Descending(db, {p \in db.players : wordle_points(db, p) > 0})}

\* for player in players: a line holds pos, the player and the points
RECURSIVE LeaderboardLines(_, _, _, _)
LeaderboardLines(db, listed, pos, leaderboard) ==
    IF pos > Len(listed) THEN leaderboard
    ELSE LeaderboardLines(db, listed, pos + 1,
             Append(leaderboard,
                    <<pos, listed[pos], wordle_points(db, listed[pos])>>))

\* the lines with the rank of a tie shared: equal points, equal rank
RECURSIVE SharedRankLines(_, _, _, _)
SharedRankLines(db, listed, pos, leaderboard) ==
    IF pos > Len(listed) THEN leaderboard
    ELSE SharedRankLines(db, listed, pos + 1,
             Append(leaderboard,
                    <<IF /\ pos > 1
                         /\ wordle_points(db, listed[pos])
                               = wordle_points(db, listed[pos - 1])
                      THEN leaderboard[pos - 1][1] ELSE pos,
                      listed[pos], wordle_points(db, listed[pos])>>))

\* get_leaderboard_message ranking ties together
get_leaderboard_message_SharedRanks(db, listed, limit) ==
    {SharedRankLines(db, l, 1, <<>>) :
        l \in IF listed = <<>> THEN get_leaderboard(db, limit) ELSE {listed}}

\* WordleOps.get_leaderboard_message: the messages it can render; an empty
\* list is replaced by the leaderboard it fetches
get_leaderboard_message(db, listed, limit) ==
    {LeaderboardLines(db, l, 1, <<>>) :
        l \in IF listed = <<>> THEN get_leaderboard(db, limit) ELSE {listed}}

\* what command_wordle_stats answers for a player the store holds
StatsReply(db, player_id) ==
    IF wordle_points(db, player_id) = 0
    THEN [kind |-> "none", points |-> 0, completions |-> 0, puzzles |-> 0,
          average |-> 0]
    ELSE [kind |-> "stats", points |-> wordle_points(db, player_id),
          completions |-> wordle_completions(db, player_id),
          puzzles |-> Cardinality(db.puzzles),
          average |-> get_player_average(db, player_id).ret]

\* command_wordle_stats
command_wordle_stats(db, user) ==
    [db |-> get_player(db, user).db,
     reply |-> StatsReply(get_player(db, user).db, user)]

\* command_wordle_leaderboard: what it answers for the list the query
\* returned
command_wordle_leaderboard(db, listed, limit) ==
    IF listed = <<>>
    THEN {[kind |-> "none", players |-> listed, lines |-> <<>>]}
    ELSE {[kind |-> "leaderboard", players |-> listed, lines |-> lines] :
             lines \in get_leaderboard_message(db, listed, limit)}

----------------------------------------------------------------------------
(* StatsSpec: the statistics read from every store of StatStores *)

StatPlayers == {1, 2, 3}

\* a history is a player's attempts on the puzzles 6, 7, 8, in this order
StatHistories ==
    {<<>>, <<1>>, <<1, 1, 1>>, <<1, 6, -1>>, <<-1>>, <<1, 2>>, <<1, 2, 2>>,
     <<5, -1>>, <<7>>}

StatPuzzle(k) == WordlePuzzle(k + 5, k, <<"W">> \o str(k))

\* the store after the players of `history` have imported their histories
StatStore(history) ==
    [players |-> DOMAIN history,
     puzzles |-> {StatPuzzle(k) : k \in 1..3},
     results |-> SetToBag(UNION {{WordleResult(history[p][k], p, k + 5) :
                                     k \in DOMAIN history[p]} :
                                 p \in DOMAIN history})]

StatStores ==
    {StatStore(history) :
        history \in UNION {[P -> StatHistories] : P \in SUBSET StatPlayers}}

\* IntParams(min=1, max=100)
Limits == 1..3

StatsInit ==
    /\ \E db \in StatStores :
          /\ players = db.players
          /\ puzzles = db.puzzles
          /\ results = db.results
    /\ svc = [d \in Days |-> Puzzle(d)]
    /\ roster = <<>>
    /\ last = [op |-> "init", args |-> <<>>, pre |-> EmptyDB, val |-> <<>>]
    /\ procs = <<>>

\* the hybrid properties of a loaded Player
ReadPlayer(player_id) ==
    /\ player_id \in players
    /\ last' = [op |-> "player", args |-> <<player_id>>, pre |-> DB,
                val |-> [wordle_points |-> wordle_points(DB, player_id),
                         wordle_average_attempts |->
                             wordle_average_attempts(DB, player_id),
                         wordle_completions |-> wordle_completions(DB, player_id),
                         wordle_fails |-> wordle_fails(DB, player_id),
                         wordle_aces |-> wordle_aces(DB, player_id)]]
    /\ UNCHANGED <<players, puzzles, results, svc, roster, procs>>

\* await WordleOps.get_player_average(client, player_id)
GetPlayerAverage(player_id) ==
    /\ Store(get_player_average(DB, player_id).db)
    /\ last' = [op |-> "get_player_average", args |-> <<player_id>>, pre |-> DB,
                val |-> [exc |-> get_player_average(DB, player_id).exc,
                         ret |-> get_player_average(DB, player_id).ret]]
    /\ UNCHANGED <<svc, roster, procs>>

\* /wordle stats
Stats(user) ==
    /\ Store(command_wordle_stats(DB, user).db)
    /\ last' = [op |-> "stats", args |-> <<user>>, pre |-> DB,
                val |-> command_wordle_stats(DB, user).reply]
    /\ UNCHANGED <<svc, roster, procs>>

\* /wordle leaderboard
Leaderboard(limit) ==
    /\ \E listed \in get_leaderboard(DB, limit) :
          \E reply \in command_wordle_leaderboard(DB, listed, limit) :
              last' = [op |-> "leaderboard", args |-> <<limit>>, pre |-> DB,
                       val |-> reply]
    /\ UNCHANGED <<players, puzzles, results, svc, roster, procs>>

\* what get_leaderboard_message is called with: no list and a limit, or
\* players in an order and the limit that is the length of the list
MessageInputs ==
    {<<<<>>, limit>> : limit \in Limits}
    \cup {<<listed, Len(listed)>> :
             listed \in UNION {Orders(S) : S \in SUBSET StatPlayers \ {{}}}}

\* await WordleOps.get_leaderboard_message(players, limit), the players loaded
\* from the store
LeaderboardMessage(listed, limit) ==
    /\ \A i \in DOMAIN listed : listed[i] \in players
    /\ \E lines \in get_leaderboard_message(DB, listed, limit) :
          last' = [op |-> "get_leaderboard_message", args |-> <<listed, limit>>,
                   pre |-> DB, val |-> lines]
    /\ UNCHANGED <<players, puzzles, results, svc, roster, procs>>

StatsNext ==
    \/ \E player_id \in StatPlayers : ReadPlayer(player_id)
    \/ \E player_id \in StatPlayers : GetPlayerAverage(player_id)
    \/ \E user \in StatPlayers : Stats(user)
    \/ \E limit \in Limits : Leaderboard(limit)
    \/ \E input \in MessageInputs : LeaderboardMessage(input[1], input[2])

StatsSpec == StatsInit /\ [][StatsNext]_vars

----------------------------------------------------------------------------
(* Points, averages, fails *)

\* the number of results of the player with this attempt count
Count(db, player_id, attempts) ==
    Cardinality({r \in BagToSet(db.results) :
                    r.player_id = player_id /\ r.attempts = attempts})

\* every result of the player is a grade of the data model: 1..6 or -1
Graded(db, player_id) ==
    \A r \in BagToSet(db.results) :
        r.player_id = player_id => r.attempts \in (1..6) \cup {-1}

\* the table 1->10, 2->5, 3->4, 4->3, 5->2, 6->1, fail->-5, summed
TablePoints(db, player_id) ==
    10 * Count(db, player_id, 1) + 5 * Count(db, player_id, 2)
    + 4 * Count(db, player_id, 3) + 3 * Count(db, player_id, 4)
    + 2 * Count(db, player_id, 5) + Count(db, player_id, 6)
    - 5 * Count(db, player_id, -1)

IsReadPlayer == last.op = "player"

IsStats == last.op = "stats" /\ last.val.kind = "stats"

\* the player whose results are 1, 6 and a fail
HasOneSixFail(db, player_id) ==
    /\ Count(db, player_id, 1) = 1
    /\ Count(db, player_id, 6) = 1
    /\ Count(db, player_id, -1) = 1
    /\ Cardinality(wordle_results(db, player_id)) = 3

\* C16: a player's total points, as the Player row and the stats command give
\* them, are the sum of the table 1->10, 2->5, 3->4, 4->3, 5->2, 6->1,
\* fail->-5 over all the player's results, without a cap and negative when
\* the fails outweigh; results 1, 6 and a fail total 6.
C16_PointsAreTableSum ==
    /\ (IsReadPlayer /\ Graded(last.pre, last.args[1])) =>
          /\ last.val.wordle_points = TablePoints(last.pre, last.args[1])
          /\ HasOneSixFail(last.pre, last.args[1]) => last.val.wordle_points = 6
    /\ (IsStats /\ Graded(last.pre, last.args[1])) =>
          last.val.points = TablePoints(last.pre, last.args[1])

\* the results 1, 6 and a fail read as 6 points
C16_Witness ==
    /\ IsReadPlayer
    /\ HasOneSixFail(last.pre, last.args[1])
    /\ last.val.wordle_points = 6

IsGetPlayerAverage == last.op = "get_player_average"

\* the sum of the attempt counts of the player's results
TotalAttempts(db, player_id) ==
    Count(db, player_id, 1) + 2 * Count(db, player_id, 2)
    + 3 * Count(db, player_id, 3) + 4 * Count(db, player_id, 4)
    + 5 * Count(db, player_id, 5) + 6 * Count(db, player_id, 6)
    - Count(db, player_id, -1)

Results(db, player_id) ==
    Cardinality({r \in BagToSet(db.results) : r.player_id = player_id})

\* v is n / d rounded: an integer nearest to n / d (either neighbour of a half)
IsRounded(v, n, d) ==
    /\ 2 * (v * d - n) <= d
    /\ 2 * (n - v * d) <= d

\* C17: for a player with at least one result, all of them graded 1..6 or -1,
\* the average that get_player_average returns and the stats command shows is
\* round(sum of the attempt counts / number of results).
C17_AverageIsRounded ==
    /\ (/\ IsGetPlayerAverage
        /\ Results(last.pre, last.args[1]) > 0
        /\ Graded(last.pre, last.args[1])) =>
          IsRounded(last.val.ret, TotalAttempts(last.pre, last.args[1]),
                    Results(last.pre, last.args[1]))
    /\ (IsStats /\ Graded(last.pre, last.args[1])) =>
          IsRounded(last.val.average, TotalAttempts(last.pre, last.args[1]),
                    Results(last.pre, last.args[1]))

\* C18: for a player with no results the average is 0 and no division error
\* is raised, from get_player_average and from Player.wordle_average_attempts.
C18_NoResultsAverageZero ==
    /\ (IsGetPlayerAverage /\ Results(last.pre, last.args[1]) = 0) =>
          last.val = [exc |-> NoExc, ret |-> 0]
    /\ (IsReadPlayer /\ Results(last.pre, last.args[1]) = 0) =>
          last.val.wordle_average_attempts = 0

\* the average of a player who was not stored before: get_player_average
\* creates the player and answers 0
C18_Witness ==
    /\ IsGetPlayerAverage
    /\ last.args[1] \notin last.pre.players
    /\ last.args[1] \in players
    /\ last.val = [exc |-> NoExc, ret |-> 0]

\* C19: a player's fail count is the number of the player's stored results
\* whose attempt count is the fail sentinel -1, the count an X grade is
\* imported as.
C19_FailsCountSentinel ==
    IsReadPlayer =>
        last.val.wordle_fails = Count(last.pre, last.args[1], -1)

----------------------------------------------------------------------------
(* The leaderboard *)

IsLeaderboard == last.op = "leaderboard"

\* the players of the store whose total is positive
Positive(db) == {p \in db.players : TablePoints(db, p) > 0}

Smaller(a, b) == IF a < b THEN a ELSE b

\* the store holds three players, with 30, 30 and 10 points
ThirtyThirtyTen(db) ==
    /\ Cardinality(db.players) = 3
    /\ Cardinality({p \in db.players : TablePoints(db, p) = 30}) = 2
    /\ Cardinality({p \in db.players : TablePoints(db, p) = 10}) = 1

Listed == {last.val.players[i] : i \in DOMAIN last.val.players}

\* C20: get_leaderboard(limit) returns players with positive totals only, each
\* once, ordered by total descending, as many as there are up to `limit`, and
\* none left out has more points than one listed; for points 30, 30, 10 and
\* limit 2 the two 30-point players are returned.
C20_LeaderboardPositiveDescendingLimited ==
    (IsLeaderboard /\ \A p \in last.pre.players : Graded(last.pre, p)) =>
        /\ Listed \subseteq Positive(last.pre)
        /\ Cardinality(Listed) = Len(last.val.players)
        /\ Len(last.val.players)
              = Smaller(last.args[1], Cardinality(Positive(last.pre)))
        /\ \A i, j \in DOMAIN last.val.players :
              i < j => TablePoints(last.pre, last.val.players[i])
                       >= TablePoints(last.pre, last.val.players[j])
        /\ \A p \in Positive(last.pre) \ Listed : \A q \in Listed :
              TablePoints(last.pre, p) <= TablePoints(last.pre, q)
        /\ (ThirtyThirtyTen(last.pre) /\ last.args[1] = 2) =>
              Listed = {p \in last.pre.players : TablePoints(last.pre, p) = 30}

\* points 30, 30, 10 and limit 2: the two 30-point players are listed
C20_Witness ==
    /\ IsLeaderboard
    /\ ThirtyThirtyTen(last.pre)
    /\ last.args[1] = 2
    /\ Len(last.val.players) = 2
    /\ Listed = {p \in last.pre.players : TablePoints(last.pre, p) = 30}

----------------------------------------------------------------------------
(* The leaderboard message *)

IsLeaderboardMessage == last.op = "get_leaderboard_message"

\* the lines are those of the list: line i holds rank i and the list's i-th
\* player
RendersInOrder(lines, listed) ==
    /\ Len(lines) = Len(listed)
    /\ \A i \in DOMAIN lines : lines[i][1] = i /\ lines[i][2] = listed[i]

\* the players of the lines, in line order
Rendered(lines) == [i \in DOMAIN lines |-> lines[i][2]]

\* C21 as stated: get_leaderboard_message renders one line per player of the
\* list it is given, in list order, ranked 1, 2, 3, ... without gaps or
\* repeats.
C21_Original ==
    IsLeaderboardMessage => RendersInOrder(last.val, last.args[1])

\* C21: get_leaderboard_message renders one line per player of the list it is
\* given when that list is not empty, and of the leaderboard it fetches with
\* `limit` when the list is empty; the lines are in list order, ranked 1 on
\* the first line and one more on each following line, equal points or not.
C21_RanksCountLines ==
    /\ IsLeaderboardMessage =>
          /\ last.args[1] # <<>> => RendersInOrder(last.val, last.args[1])
          /\ last.args[1] = <<>> =>
                /\ RendersInOrder(last.val, Rendered(last.val))
                /\ Rendered(last.val) \in get_leaderboard(last.pre, last.args[2])
    /\ (IsLeaderboard /\ last.val.kind = "leaderboard") =>
          RendersInOrder(last.val.lines, last.val.players)

\* three lines, ranked 1, 2, 3, the first two players with equal points
C21_Witness ==
    /\ IsLeaderboardMessage
    /\ Len(last.args[1]) = 3
    /\ Len(last.val) = 3
    /\ last.val[1][3] = last.val[2][3]
    /\ last.val[2][1] = 2
    /\ last.val[3][1] = 3

----------------------------------------------------------------------------
(* command_wordle_import: the scan of a channel's history *)

\* the scan after one call of import_data returned or raised r
ScanCount(st, r, msg, guild_id) ==
    [exc |-> r.exc, db |-> r.db,
     found |-> IF r.exc = NoExc /\ r.ret # <<>> THEN st.found + 1 ELSE st.found,
     imports |-> Append(st.imports, Import(st.db, msg, guild_id, FALSE, r)),
     scanned |-> st.scanned]

\* if await WordleOps.import_data(...): found += 1; an exception leaves the
\* loop
ScanImport(st, msg, guild_id) ==
    IF st.exc # NoExc THEN st
    ELSE ScanCount(st, import_data(st.db, msg, guild_id, FALSE), msg, guild_id)

\* if msg.message_reference: the forwarded message is fetched and imported
ScanForward(st, msg) ==
    IF /\ msg.message_reference # <<>>
       /\ msg.message_reference[1].type = "FORWARD"
       /\ msg.message_reference[1].id # NoId
    THEN ScanImport(st, msg.message_reference[1].msg,
                    msg.message_reference[1].guild_id)
    ELSE st

\* the end of one iteration of the loop
Scanned(st) == IF st.exc # NoExc THEN st ELSE [st EXCEPT !.scanned = @ + 1]

\* one iteration: the message it forwards, then the message
ScanMessage(st, msg) == Scanned(ScanImport(ScanForward(st, msg), msg, NoId))

\* for msg in msgs
RECURSIVE ScanLoop(_, _, _)
ScanLoop(st, msgs, k) ==
    IF k > Len(msgs) \/ st.exc # NoExc THEN st
    ELSE ScanLoop(ScanMessage(st, msgs[k]), msgs, k + 1)

\* what the command answers; an exception goes to the plugin's error handler
ScanReply(st, msgs) ==
    [exc |-> st.exc, db |-> st.db, found |-> st.found, imports |-> st.imports,
     scanned |-> st.scanned,
     reply |-> IF st.exc # NoExc THEN <<"error">>
               ELSE IF st.found = 0 THEN <<"No Wordle found">>
               ELSE <<"Imported", st.found, Len(msgs)>>]

\* command_wordle_import
command_wordle_import(db, msgs) ==
    ScanReply(ScanLoop([exc |-> NoExc, db |-> db, found |-> 0, imports |-> <<>>,
                        scanned |-> 0], msgs, 1),
              msgs)

----------------------------------------------------------------------------
(* ScanSpec: channel scans, on every behaviour of the metadata service *)

\* the messages of a channel as rest.fetch_messages returns them, with the
\* guild id or without it; a forwarded message carries none
ScanMsgs ==
    {Msg(Wordle, Digest(<<<<Mark(<<"3">>), At(al)>>, <<Mark(<<"X">>), At(Al)>>>>),
         <<>>, NoMeta, 50, 2),
     Msg(Wordle, Digest(<<<<Mark(<<"4">>), At(al)>>>>), <<>>, NoMeta, NoId, 3),
     Msg(Wordle, <<>>, Card(<<"7">>, "4"), Command(2), NoId, 2),
     Msg(Wordle, <<>>, Card(<<"6">>, "4"), NoMeta, NoId, 2),
     Msg(Human, <<Text>>, <<>>, NoMeta, NoId, 2),
     Referring(Reference("FORWARD", 50,
         Msg(Wordle, Digest(<<<<Mark(<<"5">>), At(al)>>, <<Mark(<<"X">>), At(Al)>>>>),
             <<>>, NoMeta, NoId, 3)))}

\* the histories: one message, or two
Histories == {<<m>> : m \in ScanMsgs} \cup {<<m, n>> : m, n \in ScanMsgs}

ScanInit ==
    /\ players = {}
    /\ puzzles = {}
    /\ results = EmptyBag
    /\ svc \in ResolverServices
    /\ roster = <<Member(1, al, <<>>, bo), Member(2, bo, Al, <<>>)>>
    /\ last = [op |-> "init", n |-> 0, msgs |-> <<>>, pre |-> EmptyDB,
               exc |-> NoExc, found |-> 0, imports |-> <<>>, scanned |-> 0,
               reply |-> <<>>]
    /\ procs = <<>>

\* /wordle import
ImportChannel(msgs) ==
    /\ last.n < MaxScans
    /\ \E r \in {command_wordle_import(DB, msgs)} :
          /\ Store(r.db)
          /\ last' = [op |-> "import", n |-> last.n + 1, msgs |-> msgs,
                      pre |-> DB, exc |-> r.exc, found |-> r.found,
                      imports |-> r.imports, scanned |-> r.scanned,
                      reply |-> r.reply]
    /\ UNCHANGED <<svc, roster, procs>>

ScanNext == \E msgs \in Histories : ImportChannel(msgs)

ScanSpec == ScanInit /\ [][ScanNext]_vars

----------------------------------------------------------------------------
(* The scan: failures and the number it reports *)

IsScan == last.op = "import"

\* C22: a failure while importing one message of a channel scan is caught at
\* that message and counted as not imported: every message of the history is
\* processed and the scan completes with its answer.
C22_ScanSurvivesFailures ==
    IsScan =>
        /\ last.exc = NoExc
        /\ last.scanned = Len(last.msgs)
        /\ last.reply # <<"error">>

\* the result rows stored during the scan
NewRows == BagCardinality(results) - BagCardinality(last.pre.results)

\* C24: the number the channel scan reports as imported is the number of
\* result rows newly stored during the scan.
C24_ReportedIsStored ==
    (IsScan /\ last.exc = NoExc) =>
        IF NewRows = 0 THEN last.reply = <<"No Wordle found">>
        ELSE last.reply = <<"Imported", NewRows, Len(last.msgs)>>

\* the imports of the scan that the streak strategy answered without raising
StreakImports ==
    {i \in DOMAIN last.imports :
        last.imports[i].strategy = "streak" /\ last.imports[i].exc = NoExc}

\* C23: every result stored from a streak digest references a stored puzzle
\* whose day is the creation day of the digest minus one, whatever the
\* metadata service answers, when the import succeeds.
C23_StreakPuzzleIsDayBefore ==
    IsScan =>
        \A i \in StreakImports :
            \A k \in DOMAIN last.imports[i].ret :
                \E p \in last.imports[i].post.puzzles :
                    /\ p.id = last.imports[i].ret[k].puzzle_id
                    /\ p.day = last.imports[i].msg.created_at - 1

----------------------------------------------------------------------------
(* Referential integrity *)

\* C25: in every reachable state every stored result's player_id is the id of
\* a stored player and its puzzle_id is the id of a stored puzzle.
C25_ReferentialIntegrity ==
    \A r \in BagToSet(results) :
        /\ r.player_id \in players
        /\ \E p \in puzzles : p.id = r.puzzle_id

\* results of two players on two puzzles are stored, from a digest and from a
\* share card
C25_Witness ==
    /\ C25_ReferentialIntegrity
    /\ Cardinality({r.player_id : r \in BagToSet(results)}) = 2
    /\ Cardinality({r.puzzle_id : r \in BagToSet(results)}) = 2
    /\ last.op \in {"event", "import_message"}
    /\ \E i \in DOMAIN last.imports : last.imports[i].strategy = "share"

----------------------------------------------------------------------------
(* Two pipelines importing one digest *)

Terminated(p) == procs[p].pc \in {"done", "failed"}

\* both pipelines import the same streak digest
SameDigest ==
    /\ procs[1].job = procs[2].job
    /\ procs[1].job.kind = "streak"

\* the rows stored for the player
RowsOfPlayer(user) == {r \in BagToSet(results) : r.player_id = user}

FirstOf(items, i) ==
    items[CHOOSE j \in DOMAIN items :
              /\ items[j].user = items[i].user
              /\ \A k \in DOMAIN items : items[k].user = items[i].user => j <= k]

====
